---- MODULE Spec2Model ----
(***************************************************************************)
(* Model of the Doca backend indexing core:                                *)
(*   - chunk_text            (src/back/src/utils/chunking.py)              *)
(*   - DocumentIndexer.index_file (src/back/src/core/indexer.py)           *)
(*   - IndexingService.index_directory                                     *)
(*                           (src/back/src/services/indexing_service.py)   *)
(* Three specifications share the variables of the module:                 *)
(*   ChunkSpec  runs chunk_text one loop iteration per step,               *)
(*   PipeSpec   applies index_file to one file,                            *)
(*   Spec       runs one directory job of IndexingService.                 *)
(* Positions in texts are 0-based as in the source; a text is a sequence   *)
(* of one-character strings.                                               *)
(***************************************************************************)
EXTENDS Integers, Sequences, FiniteSets, TLC

VARIABLES
    \* ---- chunk_text (ChunkSpec) ----
    cpc,            \* position in chunk_text: "off", "entry", "loop", "done", "raised"
    arg_text,       \* the text argument
    arg_chunk_size, \* the chunk_size argument
    arg_overlap,    \* the chunk_overlap argument
    text,           \* local text (after the length cap)
    chunk_size,     \* local chunk_size (after the ceiling)
    chunk_overlap,  \* local chunk_overlap (after the cap at chunk_size // 2)
    loop,           \* loop locals: start, end, chunk_count, chunks, chunk
    \* ---- DocumentIndexer (PipeSpec and Spec) ----
    idx_chunk_size,    \* DocumentIndexer.chunk_size
    idx_chunk_overlap, \* DocumentIndexer.chunk_overlap
    ppc,            \* position of the index_file call: "off", "call", "returned"
    pfile,          \* what the file and the collaborators do when index_file touches them
    pres,           \* what the index_file call did and returned
    \* ---- IndexingService.index_directory (Spec) ----
    jpc,            \* position of the job in index_directory
    indexer,        \* self.indexer is set
    dir_files,      \* the files the glob finds, in enumeration order: [path, size]
    all_files,      \* all_files after the sort by size
    filtered_files, \* the files within the size limit
    fidx,           \* position of the filter loop in all_files
    total_files,
    indexed_count,
    skipped_count,
    error_count,
    batch_idx,      \* index of the first file of the current batch
    i,              \* index of the current file in its batch
    file_chunks,    \* what index_file returned for the current file
    retval,         \* what index_directory returned (-1: nothing yet)
    trace,          \* Notifier events delivered and pacing / cleanup steps, in order
    handled,        \* per index_file call: the file, its terminal state, its count
    faults,         \* failures of collaborators so far in this run
    \* EmbeddingGenerator.generate_embeddings (embeddings.py)
    epc,            \* position: "off", "call", "loop", "returned"
    emb_chunks,     \* argument chunks: the passages, in order
    arg_batch_size, \* argument batch_size
    embedding_dim,  \* self.embedding_dim
    encode_raises,  \* start offsets of the batches whose encode call raises
    batch_size,     \* local batch_size (lowered for many passages)
    emb_i,          \* loop variable i of the batch loop
    all_embeddings, \* local all_embeddings
    emb_ops,        \* the releases, encode calls and delays of the call, in order
    \* DocumentIndexer.__init__ and TypesenseStorage (indexer.py, typesense_storage.py)
    spc,                 \* position in the construction of the indexer
    recreate_collection, \* argument recreate_collection
    collection0,         \* num_dim of the collection before the run (0: no collection)
    collection,          \* num_dim of the collection now (0: no collection)
    store_faults,        \* Typesense calls that raised so far
    \* TypesenseStorage.prepare_document and index_documents, for two chunks
    ipc,            \* position: "off", "call", "prepared", "converted"
    doc_args,       \* the arguments of the two prepare_document calls
    documents,      \* the two documents prepare_document built
    typesense_docs, \* the two documents index_documents hands to Typesense
    \* start_indexing (socket_handlers.py): the tasks of the event loop
    tasks,          \* per task created: its collection, position and files left
    \* two calls of chunk_text with the same arguments
    det             \* position, the configured limits seen by the calls, the results

chunkVars == <<cpc, arg_text, arg_chunk_size, arg_overlap, text, chunk_size,
               chunk_overlap, loop>>

pipeVars == <<idx_chunk_size, idx_chunk_overlap, ppc, pfile, pres>>

jobVars == <<jpc, indexer, dir_files, all_files, filtered_files, fidx, total_files,
             indexed_count, skipped_count, error_count, batch_idx, i, file_chunks,
             retval, trace, handled, faults>>

\* EmbeddingGenerator.generate_embeddings: position, arguments, locals, and the
\* batches (by start offset) on which the encoder raises
embVars == <<epc, emb_chunks, arg_batch_size, embedding_dim, encode_raises, batch_size,
             emb_i, all_embeddings, emb_ops>>

storeVars == <<spc, recreate_collection, collection0, collection, store_faults>>

idVars == <<ipc, doc_args, documents, typesense_docs>>

concVars == <<tasks>>

detVars == <<det>>

libVars == <<embVars, storeVars, idVars, concVars, detVars>>

vars == <<chunkVars, pipeVars, jobVars, libVars>>

----------------------------------------------------------------------------
(* Bounds of the model *)

MaxTextLen == 4
MaxChunkSize == 3
MaxOverlap == 2
MaxFiles == 3
MaxFaults == 2

----------------------------------------------------------------------------
(* Program constants *)

max_safe_length == 500000
ChunkSizeCeiling == 1000
MAX_CHUNKS_PER_FILE == 50
SmallProgress == 10
SeveralChunks == 5
CHUNK_SIZE == 512
CHUNK_OVERLAP == 128
EFFECTIVE_CHUNK_SIZE == 512
EFFECTIVE_CHUNK_OVERLAP == 128
MAX_CONTENT_LENGTH == 100000
max_file_size == 5 * 1024 * 1024
MAX_FILE_SIZE == 5 * 1024 * 1024
BATCH_SIZE == 5

----------------------------------------------------------------------------
(* Texts *)

Alphabet == {"a", " ", "\n", ".", ","}

Whitespace == {" ", "\n"}

Min(a, b) == IF a <= b THEN a ELSE b

Max(a, b) == IF a >= b THEN a ELSE b

\* text[lo:hi] for 0 <= lo, 0 <= hi (Python slice, clamped to the text)
Slice(t, lo, hi) == SubSeq(t, lo + 1, Min(hi, Len(t)))

\* bool(chunk.strip()): the chunk has a non-whitespace character
StripNonEmpty(c) == \E k \in 1..Len(c) : c[k] \notin Whitespace

\* text.rfind(sub, lo, hi): highest position of sub lying inside [lo, hi), or -1
RFind(t, sub, lo, hi) ==
    LET h == Min(hi, Len(t))
        hits == {p \in lo..(h - Len(sub)) : SubSeq(t, p + 1, p + Len(sub)) = sub}
    IN  IF hits = {} THEN -1 ELSE CHOOSE p \in hits : \A q \in hits : q <= p

\* the list of break strings, in priority order
break_chars == << <<"\n", "\n">>, <<"\n">>, <<".", " ">>, <<"!", " ">>,
                  <<"?", " ">>, <<";", " ">>, <<",", " ">> >>

\* a plausible slip: the first occurrence in the range taken instead of the last
NaturalEndFirstOccurrence(t, cs, start, end) ==
    LET min_break_point == start + (cs \div 3)
        first(sub) ==
            LET hits == {p \in min_break_point..(Min(end, Len(t)) - Len(sub)) :
                            SubSeq(t, p + 1, p + Len(sub)) = sub}
            IN  IF hits = {} THEN -1 ELSE CHOOSE p \in hits : \A q \in hits : p <= q
        found == {k \in 1..Len(break_chars) : first(break_chars[k]) # -1}
    IN  IF found = {} THEN Min(end, Len(t))
        ELSE LET k == CHOOSE k \in found : \A j \in found : k <= j
             IN  first(break_chars[k]) + Len(break_chars[k])

\* a plausible slip: a break string that only begins before the hard end counts
NaturalEndStraddling(t, cs, start, end) ==
    LET min_break_point == start + (cs \div 3)
        last(sub) == RFind(t, sub, min_break_point, end + Len(sub) - 1)
        found == {k \in 1..Len(break_chars) : last(break_chars[k]) # -1}
    IN  IF found = {} THEN Min(end, Len(t))
        ELSE LET k == CHOOSE k \in found : \A j \in found : k <= j
             IN  last(break_chars[k]) + Len(break_chars[k])

\* the for-loop over break_chars: the end chosen for the window [start, end)
NaturalEnd(t, cs, start, end) ==
    LET min_break_point == start + (cs \div 3)
        found == {k \in 1..Len(break_chars) :
                     RFind(t, break_chars[k], min_break_point, end) # -1}
    IN  IF found = {} THEN Min(end, Len(t))
        ELSE LET k == CHOOSE k \in found : \A j \in found : k <= j
             IN  RFind(t, break_chars[k], min_break_point, end) + Len(break_chars[k])

----------------------------------------------------------------------------
(* chunk_text: the body of the while loop *)

\* locals of the loop when it is entered (start = 0, chunk_count = 0, chunks = [])
LoopInit == [start |-> 0, end |-> 0, chunk_count |-> 0, chunks |-> <<>>,
             chunk |-> <<>>, running |-> TRUE]

\* the while condition of the loop
LoopGuard(t, max_chunks, l) ==
    l.running /\ l.start < Len(t) /\ l.chunk_count < max_chunks

\* a plausible slip: the overlap applied with no check that the window advances
NextStartNoCheck(old_start, end, ov, chunk, chunks, chunk_count) == end - ov

\* a plausible slip: no check for a repeated chunk
NextStartNoDuplicateCheck(old_start, end, ov, chunk, chunks, chunk_count) ==
    LET s2 == end - ov
        s3 == IF s2 <= old_start \/ (end - s2 < SmallProgress /\ chunk_count > SeveralChunks)
              THEN end ELSE s2
    IN  IF s3 = end THEN s3 + 1 ELSE s3

\* the new start after a window [old_start, end) whose slice is chunk
NextStart(old_start, end, ov, chunk, chunks, chunk_count) ==
    LET s1 == end - ov
        s2 == IF Len(chunks) >= 2 /\ chunk = chunks[Len(chunks) - 1] THEN end ELSE s1
        s3 == IF s2 <= old_start \/ (end - s2 < SmallProgress /\ chunk_count > SeveralChunks)
              THEN end ELSE s2
    IN  IF s3 = end THEN s3 + 1 ELSE s3

\* a plausible slip: an emitted chunk is not counted
LoopBodyNoCount(t, cs, ov, max_chunks, l) ==
    LET hard == Min(l.start + cs, Len(t))
        end == IF hard < Len(t) THEN NaturalEnd(t, cs, l.start, hard) ELSE hard
        chunk == Slice(t, l.start, end)
        chunks == IF StripNonEmpty(chunk) THEN Append(l.chunks, chunk) ELSE l.chunks
    IN  [start |-> NextStart(l.start, end, ov, chunk, chunks, l.chunk_count),
         end |-> end, chunk_count |-> l.chunk_count, chunks |-> chunks,
         chunk |-> chunk, running |-> l.chunk_count < max_chunks]

\* one iteration of the loop body, entered with the while condition true
LoopBody(t, cs, ov, max_chunks, l) ==
    LET hard == Min(l.start + cs, Len(t))
        end == IF hard < Len(t) THEN NaturalEnd(t, cs, l.start, hard) ELSE hard
    IN  IF l.start >= end \/ l.start >= Len(t) \/ end > Len(t)
        THEN [l EXCEPT !.running = FALSE]
        ELSE LET chunk == Slice(t, l.start, end)
                 emit == StripNonEmpty(chunk)
                 chunks == IF emit THEN Append(l.chunks, chunk) ELSE l.chunks
                 chunk_count == IF emit THEN l.chunk_count + 1 ELSE l.chunk_count
             IN  [start |-> NextStart(l.start, end, ov, chunk, chunks, chunk_count),
                  end |-> end,
                  chunk_count |-> chunk_count,
                  chunks |-> chunks,
                  chunk |-> chunk,
                  running |-> chunk_count < max_chunks]

\* the cap on the text length
CapText(t) == IF Len(t) > max_safe_length THEN Slice(t, 0, max_safe_length) ELSE t

\* the ceiling on chunk_size
CapChunkSize(cs) == IF cs > ChunkSizeCeiling THEN ChunkSizeCeiling ELSE cs

\* a plausible slip: the overlap taken as given
CapOverlapNone(cs, ov) == ov

\* the cap on chunk_overlap, given the capped chunk_size
CapOverlap(cs, ov) == IF ov > cs \div 2 THEN cs \div 2 ELSE ov

\* a plausible slip: the short-text test written with < instead of <=
IsShortStrict(t, cs) == Len(t) < cs

\* the test of the short-text branch
IsShort(t, cs) == Len(t) <= cs

\* estimated_chunks divides by chunk_size - chunk_overlap: ZeroDivisionError
EstimateRaises(cs, ov) == cs - ov = 0

RECURSIVE RunLoop(_, _, _, _, _)
RunLoop(t, cs, ov, max_chunks, l) ==
    IF LoopGuard(t, max_chunks, l)
    THEN RunLoop(t, cs, ov, max_chunks, LoopBody(t, cs, ov, max_chunks, l))
    ELSE l

\* chunk_text(text, chunk_size, chunk_overlap) as a function of its arguments
chunk_text(t0, cs0, ov0) ==
    LET t == CapText(t0)
        cs == CapChunkSize(cs0)
        ov == CapOverlap(cs, ov0)
    IN  IF EstimateRaises(cs, ov) THEN [raised |-> TRUE, chunks |-> <<>>]
        ELSE IF IsShort(t, cs) THEN [raised |-> FALSE, chunks |-> <<t>>]
        ELSE [raised |-> FALSE,
              chunks |-> RunLoop(t, cs, ov, MAX_CHUNKS_PER_FILE, LoopInit).chunks]

----------------------------------------------------------------------------
(* ChunkSpec: chunk_text, one loop iteration per step *)

RECURSIVE Texts(_)
Texts(n) == IF n = 0 THEN {<<>>}
            ELSE LET shorter == Texts(n - 1)
                 IN  shorter \cup {Append(t, c) : t \in {u \in shorter : Len(u) = n - 1},
                                                  c \in Alphabet}

\* a long text: the pattern repeated up to length n
Repeat(pattern, n) == [k \in 1..n |-> pattern[((k - 1) % Len(pattern)) + 1]]

LongTexts == {Repeat(<<"a">>, 2 * MAX_CHUNKS_PER_FILE + 20),
              Repeat(<<"a", "b", ",", " ">>, ChunkSizeCeiling),
              Repeat(<<"a", "b", ",", " ">>, ChunkSizeCeiling + 1),
              Repeat(<<"a", ";", " ", "b", "\n", "c", ",", " ">>, ChunkSizeCeiling + 1)}

ChunkTexts == Texts(MaxTextLen) \cup LongTexts

ChunkSizes == (0..MaxChunkSize) \cup {ChunkSizeCeiling, ChunkSizeCeiling + 1}

Overlaps == 0..MaxOverlap

ChunkOff ==
    /\ cpc = "off"
    /\ arg_text = <<>> /\ arg_chunk_size = 0 /\ arg_overlap = 0
    /\ text = <<>> /\ chunk_size = 0 /\ chunk_overlap = 0
    /\ loop = LoopInit

JobOff ==
    /\ jpc = "off" /\ indexer = FALSE
    /\ dir_files = <<>> /\ all_files = <<>> /\ filtered_files = <<>> /\ fidx = 0
    /\ total_files = 0 /\ indexed_count = 0 /\ skipped_count = 0 /\ error_count = 0
    /\ batch_idx = 0 /\ i = 0 /\ file_chunks = 0 /\ retval = -1
    /\ trace = <<>> /\ handled = <<>> /\ faults = 0

PipeOff ==
    /\ ppc = "off"
    /\ idx_chunk_size = 0 /\ idx_chunk_overlap = 0
    /\ pfile = <<>> /\ pres = <<>>

EmbOff ==
    /\ epc = "off"
    /\ emb_chunks = <<>> /\ arg_batch_size = 0 /\ embedding_dim = 0
    /\ encode_raises = {} /\ batch_size = 0 /\ emb_i = 0 /\ all_embeddings = <<>>
    /\ emb_ops = <<>>

StoreOff ==
    /\ spc = "off" /\ recreate_collection = FALSE
    /\ collection0 = 0 /\ collection = 0 /\ store_faults = 0

IdOff ==
    /\ ipc = "off"
    /\ doc_args = <<>> /\ documents = <<>> /\ typesense_docs = <<>>

ConcOff == tasks = <<>>

DetOff == det = [pc |-> "off", limits |-> <<>>, results |-> <<>>]

LibOff == EmbOff /\ StoreOff /\ IdOff /\ ConcOff /\ DetOff

ChunkInit ==
    /\ PipeOff
    /\ LibOff
    /\ JobOff
    /\ cpc = "entry"
    /\ arg_text \in ChunkTexts
    /\ arg_chunk_size \in ChunkSizes
    /\ arg_overlap \in Overlaps
    /\ text = arg_text /\ chunk_size = arg_chunk_size /\ chunk_overlap = arg_overlap
    /\ loop = LoopInit

\* lines 21-49: the caps, the estimate, and the short-text branch
ChunkEntry ==
    /\ cpc = "entry"
    /\ text' = CapText(arg_text)
    /\ chunk_size' = CapChunkSize(arg_chunk_size)
    /\ chunk_overlap' = CapOverlap(chunk_size', arg_overlap)
    /\ IF EstimateRaises(chunk_size', chunk_overlap')
       THEN cpc' = "raised" /\ loop' = loop
       ELSE IF IsShort(text', chunk_size')
       THEN cpc' = "done" /\ loop' = [loop EXCEPT !.chunks = <<text'>>, !.running = FALSE]
       ELSE cpc' = "loop" /\ loop' = loop
    /\ UNCHANGED <<libVars, arg_text, arg_chunk_size, arg_overlap, pipeVars, jobVars>>

\* lines 54-121: one iteration of the while loop
ChunkIterate ==
    /\ cpc = "loop"
    /\ LoopGuard(text, MAX_CHUNKS_PER_FILE, loop)
    /\ loop' = LoopBody(text, chunk_size, chunk_overlap, MAX_CHUNKS_PER_FILE, loop)
    /\ UNCHANGED <<libVars, cpc, arg_text, arg_chunk_size, arg_overlap, text, chunk_size,
                   chunk_overlap, pipeVars, jobVars>>

\* the loop is left (condition false or break) and the chunks are returned
ChunkReturn ==
    /\ cpc = "loop"
    /\ ~LoopGuard(text, MAX_CHUNKS_PER_FILE, loop)
    /\ cpc' = "done"
    /\ loop' = [loop EXCEPT !.running = FALSE]
    /\ UNCHANGED <<libVars, arg_text, arg_chunk_size, arg_overlap, text, chunk_size,
                   chunk_overlap, pipeVars, jobVars>>

ChunkNext == ChunkEntry \/ ChunkIterate \/ ChunkReturn

ChunkSpec == ChunkInit /\ [][ChunkNext]_vars

\* the loop is a sequential run: a step that can be taken is taken
ChunkLive == ChunkInit /\ [][ChunkNext]_vars /\ WF_vars(ChunkNext)

----------------------------------------------------------------------------
(* Properties of chunk_text *)

\* C8: in chunk_text (chunk_size >= 1, overlap >= 0) every iteration of the
\* window loop moves start strictly forward and never past len(text) + 1, so
\* no start position is repeated and the loop ends after at most
\* len(text) + 1 iterations.
C8_ForwardProgress ==
    [][ChunkIterate => /\ loop'.start > loop.start
                       /\ loop'.start <= Len(text) + 1]_vars

\* C8 witness: an iteration in which the overlap would have moved start back
\* to where it was (the progress check fired) has been taken.
C8_Witness ==
    /\ cpc = "loop"
    /\ loop.chunk_count >= 1
    /\ chunk_overlap >= 1
    /\ loop.start = loop.end + 1

\* C9: chunk_text never holds or returns more than MAX_CHUNKS_PER_FILE chunks;
\* when the text would give more, the result is the first MAX_CHUNKS_PER_FILE
\* chunks of the uncapped chunking and the call returns normally.
C9_ChunkCountBounded ==
    /\ Len(loop.chunks) <= MAX_CHUNKS_PER_FILE
    /\ (cpc = "done" /\ ~IsShort(text, chunk_size)) =>
          LET full == RunLoop(text, chunk_size, chunk_overlap, Len(text) + 1,
                              LoopInit).chunks
          IN  loop.chunks = SubSeq(full, 1, Min(Len(full), MAX_CHUNKS_PER_FILE))

\* C9 witness: chunk_text returned with the limit reached and text left over.
C9_Witness ==
    /\ cpc = "done"
    /\ Len(loop.chunks) = MAX_CHUNKS_PER_FILE
    /\ loop.start < Len(text)
    /\ Len(RunLoop(text, chunk_size, chunk_overlap, Len(text) + 1, LoopInit).chunks)
          > MAX_CHUNKS_PER_FILE

\* C10 as stated: for chunk_size >= 1, whenever len(text) <= the chunk_size
\* argument, chunk_text returns exactly one chunk, equal to the whole input text.
C10_AsStated ==
    (/\ cpc \in {"done", "raised"}
     /\ arg_chunk_size >= 1
     /\ Len(arg_text) <= arg_chunk_size) =>
        (cpc = "done" /\ loop.chunks = <<arg_text>>)

\* C10 amended: for chunk_size >= 1 and a text no longer than the chunk_size
\* argument capped at the ceiling of 1000, chunk_text returns exactly one
\* chunk, equal to the whole input text.
C10_ShortTextIdentity ==
    (/\ cpc \in {"done", "raised"}
     /\ arg_chunk_size >= 1
     /\ Len(arg_text) <= Min(arg_chunk_size, ChunkSizeCeiling)) =>
        (cpc = "done" /\ loop.chunks = <<arg_text>>)

\* C10 witness: a call with a chunk_size argument above the ceiling and a text
\* exactly as long as the ceiling returned the text as its only chunk.
C10_Witness ==
    /\ cpc = "done"
    /\ arg_chunk_size > ChunkSizeCeiling
    /\ Len(arg_text) = ChunkSizeCeiling
    /\ loop.chunks = <<arg_text>>

----------------------------------------------------------------------------
(* DocumentIndexer.index_file *)

\* A statement or block either returns a value or raises an exception; fx
\* records what the call did on the way: whether the file was opened, how
\* often the embedding generator and the body of index_documents ran, what the
\* store reported, what was sent to a Notifier, the stage it stopped in, and
\* the kind of its last message: "Skipped" for a warning or note that the file
\* is passed over, "Failed" for an error message, "Done" when the store
\* answered.
NoEffects == [opened |-> FALSE, truncated |-> FALSE, nchunks |-> 0, embed_calls |-> 0,
              store_calls |-> 0, accepted |-> 0, rejected |-> 0,
              notified |-> <<>>, stage |-> "Start", outcome |-> "Skipped"]

Return(v, fx) == [kind |-> "return", value |-> v, exc |-> "none", fx |-> fx]

Raise(e, fx) == [kind |-> "raise", value |-> 0, exc |-> e, fx |-> fx]

\* exception classes caught by "except Exception"
ExceptionClasses == {"OSError", "UnicodeDecodeError", "ParseError", "ZeroDivisionError",
                     "MemoryError", "RuntimeError", "TypeError", "ConnectionError"}

\* the parameters index_documents declares, apart from self
index_documents_params == {"documents"}

\* the keyword arguments of the index_documents call in index_file
index_documents_keywords == {"batch_size"}

\* TypesenseStorage.index_documents(documents): (success_count, failed_count)
\* for n documents and a store that behaves as store
index_documents(n, store) ==
    CASE store = "all"   -> [success |-> n, failed |-> 0]
      [] store = "part"  -> [success |-> n - 1, failed |-> 1]
      [] store = "none"  -> [success |-> 0, failed |-> n]
      [] store = "raise" -> [success |-> 0, failed |-> n]

\* the call self.storage.index_documents(all_documents, batch_size=...): Python
\* binds the arguments before the body runs and raises TypeError for a
\* keyword the function does not declare
CallIndexDocuments(n, store, fx) ==
    IF ~(index_documents_keywords \subseteq index_documents_params)
    THEN Raise("TypeError", [fx EXCEPT !.stage = "Store", !.outcome = "Failed"])
    ELSE LET r == index_documents(n, store)
         IN  Return(r.success, [fx EXCEPT !.stage = "Store", !.store_calls = 1,
                                          !.accepted = r.success, !.rejected = r.failed,
                                          !.outcome = "Done"])

\* lines 211-250: embeddings, records, upsert, inside their try
StoreStage(f, n, fx) ==
    LET success_count == 0
        fxe == [fx EXCEPT !.embed_calls = 1, !.stage = "Embed", !.outcome = "Failed"]
        body == IF f.embed = "raise" THEN Raise("RuntimeError", fxe)
                ELSE CallIndexDocuments(n, f.store, fxe)
    IN  IF body.kind = "raise" THEN Return(success_count, body.fx) ELSE body

\* lines 181-209: chunking inside its try, the empty check and the limit
ChunkStage(f, cs, ov, fx) ==
    LET effective_chunk_size == Min(cs, EFFECTIVE_CHUNK_SIZE)
        effective_overlap == Min(ov, EFFECTIVE_CHUNK_OVERLAP)
        fxc == [fx EXCEPT !.stage = "Chunk"]
        r == chunk_text(f.text, effective_chunk_size, effective_overlap)
    IN  IF f.chunk = "MemoryError" \/ r.raised
        THEN Return(0, [fxc EXCEPT !.outcome = "Failed"])
        ELSE IF r.chunks = <<>> THEN Return(0, [fxc EXCEPT !.outcome = "Skipped"])
        ELSE LET chunks == IF Len(r.chunks) > MAX_CHUNKS_PER_FILE
                           THEN SubSeq(r.chunks, 1, MAX_CHUNKS_PER_FILE)
                           ELSE r.chunks
             IN  StoreStage(f, Len(chunks), [fxc EXCEPT !.nchunks = Len(chunks)])

\* lines 138-179: read with the encoding fallback, the empty check, the
\* content limit and the parse inside its try
ReadParseStage(f, cs, ov, fx) ==
    LET fxr == [fx EXCEPT !.opened = TRUE, !.stage = "Read"]
    IN  IF f.read \in {"latin1_fail", "oserror"}
        THEN Return(0, [fxr EXCEPT !.outcome = "Failed"])
        ELSE IF f.content_len = 0 THEN Return(0, [fxr EXCEPT !.outcome = "Skipped"])
        ELSE LET fxp == [fxr EXCEPT !.truncated = f.content_len > MAX_CONTENT_LENGTH,
                                    !.stage = "Parse"]
             IN  IF f.parse = "raise" THEN Return(0, [fxp EXCEPT !.outcome = "Failed"])
                 ELSE ChunkStage(f, cs, ov, fxp)

\* a plausible slip: the file size is not checked before the file is read
IndexFileBodyNoSizeCheck(f, cs, ov) ==
    IF ~f.parser THEN Return(0, NoEffects)
    ELSE IF f.getsize = "raise"
    THEN Raise("OSError", [NoEffects EXCEPT !.outcome = "Failed"])
    ELSE ReadParseStage(f, cs, ov, NoEffects)

\* lines 122-250: the body of the outer try
IndexFileBody(f, cs, ov) ==
    IF ~f.parser THEN Return(0, NoEffects)
    ELSE IF f.getsize = "raise"
    THEN Raise("OSError", [NoEffects EXCEPT !.outcome = "Failed"])
    ELSE IF f.size > max_file_size THEN Return(0, NoEffects)
    ELSE ReadParseStage(f, cs, ov, NoEffects)

\* a plausible slip: index_file without its outer except clauses
index_file_unguarded(f, cs, ov) == IndexFileBody(f, cs, ov)

\* index_file(file_path) of an indexer with chunk_size cs and chunk_overlap ov
index_file(f, cs, ov) ==
    LET body == IndexFileBody(f, cs, ov)
    IN  IF body.kind = "raise" /\ body.exc \in ExceptionClasses
        THEN Return(0, body.fx)
        ELSE body

----------------------------------------------------------------------------
(* PipeSpec: one call of index_file *)

PipeTexts == {<<>>, <<" ">>, <<"a">>, <<"a", "b", "c">>, <<" ", "\n", " ">>,
              <<"a", ".", " ", "b", "c">>}

FileSizes == {1, max_file_size, max_file_size + 1}

\* everything the file system, the parser, the embedding generator and the
\* store can answer when index_file touches them
FileCases ==
    [parser : BOOLEAN, getsize : {"ok", "raise"}, size : FileSizes,
     read : {"utf8", "latin1", "latin1_fail", "oserror"},
     content_len : {0, 1, MAX_CONTENT_LENGTH + 1},
     parse : {"ok", "raise"}, text : PipeTexts, chunk : {"ok", "MemoryError"},
     embed : {"ok", "zero_vectors", "raise"}, store : {"all", "part", "none", "raise"}]

\* the answers the call did not ask for do not matter: they are fixed
Relevant(f) ==
    /\ (~f.parser => f.getsize = "ok")
    /\ (~f.parser \/ f.getsize = "raise" => f.size = 1)
    /\ (~f.parser \/ f.getsize = "raise" \/ f.size > max_file_size => f.read = "utf8")
    /\ (f.read \in {"latin1_fail", "oserror"} => f.content_len = 1)
    /\ (f.content_len = 0 => f.parse = "ok")
    /\ (f.parse = "raise" => f.text = <<>>)

IndexerChunkSizes == {0, 2, CHUNK_SIZE}

IndexerOverlaps == {0, 1, CHUNK_OVERLAP}

PipeInit ==
    /\ ChunkOff
    /\ LibOff
    /\ JobOff
    /\ ppc = "call"
    /\ idx_chunk_size \in IndexerChunkSizes
    /\ idx_chunk_overlap \in IndexerOverlaps
    /\ pfile \in {f \in FileCases : Relevant(f)}
    /\ pres = <<>>

\* lines 111-256: the call of index_file on the file
CallIndexFile ==
    /\ ppc = "call"
    /\ pres' = index_file(pfile, idx_chunk_size, idx_chunk_overlap)
    /\ ppc' = "returned"
    /\ UNCHANGED <<libVars, chunkVars, jobVars, idx_chunk_size, idx_chunk_overlap, pfile>>

PipeNext == CallIndexFile

PipeSpec == PipeInit /\ [][PipeNext]_vars

----------------------------------------------------------------------------
(* IndexingService.index_directory *)

NoPath == 0

\* the events SocketNotifier emits
EvStatus(status) == [ev |-> "indexing_status", status |-> status]

EvError(file_path) == [ev |-> "indexing_error", file_path |-> file_path]

EvWarning(file_path) == [ev |-> "indexing_warning", file_path |-> file_path]

EvStarted(total, skipped) ==
    [ev |-> "indexing_started", total_files |-> total, skipped_files |-> skipped]

EvProgress(current, total, file_path, chunks_indexed) ==
    [ev |-> "indexing_progress", current |-> current, total |-> total,
     file_path |-> file_path, chunks_indexed |-> chunks_indexed]

EvCompleted(total, chunks, skipped, errors) ==
    [ev |-> "indexing_completed", total_files |-> total, total_chunks |-> chunks,
     skipped_files |-> skipped, error_files |-> errors]

\* the steps of the job that are no Notifier events
OpCleanup == [ev |-> "cleanup_memory"]

OpCollect == [ev |-> "gc_collect"]

OpSleepFile == [ev |-> "sleep", tenths |-> 2]

OpSleepBatch == [ev |-> "sleep", tenths |-> 10]

\* a call to a collaborator goes well, or fails while failures are left
Outcomes == IF faults < MaxFaults THEN {"ok", "raise"} ELSE {"ok"}

\* a plausible slip: the files left in the order of enumeration
SortNone(fs) == fs

\* all_files.sort(key = size): the stable sort of a list of files by size.
\* The file at position k moves behind the smaller files and behind the files
\* of the same size that were before it.
SortBySize(fs) ==
    LET rank(k) == 1 + Cardinality({j \in 1..Len(fs) :
                         \/ fs[j].size < fs[k].size
                         \/ fs[j].size = fs[k].size /\ j < k})
    IN  [r \in 1..Len(fs) |-> fs[CHOOSE k \in 1..Len(fs) : rank(k) = r]]

\* initialize(): the runs of lines 67-93. Each is the value returned
\* ("True", "False") or "raise", the events delivered and the failures used.
InitializeRuns ==
    {[ret |-> "True",  events |-> <<EvStatus("checking")>>, used |-> 0],
     \* Typesense not reachable: the error is sent and False returned
     [ret |-> "False", events |-> <<EvStatus("checking"), EvError(NoPath)>>, used |-> 0],
     \* the same, the first send_error raising into the except clause
     [ret |-> "False", events |-> <<EvStatus("checking"), EvError(NoPath)>>, used |-> 1],
     [ret |-> "raise", events |-> <<EvStatus("checking")>>, used |-> 2],
     \* send_status raises
     [ret |-> "False", events |-> <<EvError(NoPath)>>, used |-> 1],
     [ret |-> "raise", events |-> <<>>, used |-> 2],
     \* the DocumentIndexer constructor raises, then send_error raises or not
     [ret |-> "raise", events |-> <<EvStatus("checking")>>, used |-> 1]}

\* the directories of a run: up to MaxFiles files of any of three sizes, and
\* one directory with a file more than a batch holds
DirListings ==
    UNION {[1..n -> {1, 2, MAX_FILE_SIZE + 1}] : n \in 0..MaxFiles}
        \cup {[k \in 1..(BATCH_SIZE + 1) |-> 1]}

\* a readable file of the directory with non-empty content that parses and
\* chunks, with an embedding generator and a store that accept everything
GoodFile(size) ==
    [parser |-> TRUE, getsize |-> "ok", size |-> size, read |-> "utf8",
     content_len |-> 1, parse |-> "ok", text |-> <<"a", "b", "c">>, chunk |-> "ok",
     embed |-> "ok", store |-> "all"]

\* the behaviours of a file of the directory when index_file is called on it:
\* good, empty, failing to parse, and parsing to white space only
JobFileCases(size) ==
    {GoodFile(size),
     [GoodFile(size) EXCEPT !.content_len = 0, !.text = <<>>],
     [GoodFile(size) EXCEPT !.parse = "raise", !.text = <<>>],
     [GoodFile(size) EXCEPT !.text = <<" ", "\n", " ">>]}

Init ==
    /\ ChunkOff
    /\ LibOff
    /\ ppc = "off" /\ pfile = <<>> /\ pres = <<>>
    /\ idx_chunk_size = 2 /\ idx_chunk_overlap = 1
    /\ jpc = "enter"
    /\ indexer \in BOOLEAN
    /\ dir_files \in {[k \in DOMAIN sizes |-> [path |-> k, size |-> sizes[k]]] :
                         sizes \in DirListings}
    /\ all_files = <<>> /\ filtered_files = <<>> /\ fidx = 0
    /\ total_files = 0 /\ indexed_count = 0 /\ skipped_count = 0 /\ error_count = 0
    /\ batch_idx = 0 /\ i = 0 /\ file_chunks = 0 /\ retval = -1
    /\ trace = <<>> /\ handled = <<>> /\ faults = 0

\* lines 106-112: initialize the indexer if there is none, zero the counters
Enter ==
    /\ jpc = "enter"
    /\ IF indexer
       THEN /\ jpc' = "enumerate"
            /\ UNCHANGED <<indexer, trace, faults, retval>>
       ELSE \E r \in InitializeRuns :
            /\ faults + r.used <= MaxFaults
            /\ trace' = trace \o r.events
            /\ faults' = faults + r.used
            /\ indexer' = (r.ret = "True")
            /\ jpc' = CASE r.ret = "True" -> "enumerate"
                        [] r.ret = "False" -> "returned"
                        [] r.ret = "raise" -> "raised"
            /\ retval' = IF r.ret = "False" THEN 0 ELSE retval
    /\ indexed_count' = 0 /\ skipped_count' = 0 /\ error_count' = 0
    /\ UNCHANGED <<libVars, chunkVars, pipeVars, dir_files, all_files, filtered_files, fidx,
                   total_files, batch_idx, i, file_chunks, handled>>

\* lines 115-135: cleanup, glob of the supported extensions, sort by size
Enumerate ==
    /\ jpc = "enumerate"
    /\ \E o \in Outcomes :
         IF o = "ok"
         THEN /\ all_files' = SortBySize(dir_files)
              /\ jpc' = "filter"
              /\ UNCHANGED faults
         ELSE \* glob or stat raises
              /\ jpc' = "handler"
              /\ faults' = faults + 1
              /\ UNCHANGED all_files
    /\ trace' = Append(trace, OpCleanup)
    /\ fidx' = 0
    /\ filtered_files' = <<>>
    /\ UNCHANGED <<libVars, chunkVars, pipeVars, indexer, dir_files, total_files, indexed_count,
                   skipped_count, error_count, batch_idx, i, file_chunks, retval,
                   handled>>

\* a plausible slip: the size cap never applied
TooLargeNever(file_size) == FALSE

\* line 138: file_size > self.MAX_FILE_SIZE
TooLarge(file_size) == file_size > MAX_FILE_SIZE

\* lines 136-145: one iteration of the filter loop
FilterFile ==
    /\ jpc = "filter"
    /\ fidx < Len(all_files)
    /\ LET file_path == all_files[fidx + 1]
       IN  IF TooLarge(file_path.size)
           THEN /\ skipped_count' = skipped_count + 1
                /\ \E o \in Outcomes :
                     IF o = "ok"
                     THEN /\ trace' = Append(trace, EvWarning(file_path.path))
                          /\ jpc' = "filter"
                          /\ UNCHANGED faults
                     ELSE /\ jpc' = "handler"
                          /\ faults' = faults + 1
                          /\ UNCHANGED trace
                /\ UNCHANGED filtered_files
           ELSE /\ filtered_files' = Append(filtered_files, file_path)
                /\ UNCHANGED <<skipped_count, trace, jpc, faults>>
    /\ fidx' = fidx + 1
    /\ UNCHANGED <<libVars, chunkVars, pipeVars, indexer, dir_files, all_files, total_files,
                   indexed_count, error_count, batch_idx, i, file_chunks, retval,
                   handled>>

\* a plausible slip: the event sent with total_files as it was before line 147
SendStartedStale ==
    /\ jpc = "filter"
    /\ fidx >= Len(all_files)
    /\ total_files' = Len(filtered_files)
    /\ \E o \in Outcomes :
         IF o = "ok"
         THEN /\ trace' = Append(trace, EvStarted(total_files, skipped_count))
              /\ jpc' = "batch"
              /\ UNCHANGED faults
         ELSE /\ jpc' = "handler"
              /\ faults' = faults + 1
              /\ UNCHANGED trace
    /\ batch_idx' = 0
    /\ UNCHANGED <<libVars, chunkVars, pipeVars, indexer, dir_files, all_files, filtered_files,
                   fidx, indexed_count, skipped_count, error_count, i, file_chunks,
                   retval, handled>>

\* lines 147-148: total_files and the indexing_started event
SendStarted ==
    /\ jpc = "filter"
    /\ fidx >= Len(all_files)
    /\ total_files' = Len(filtered_files)
    /\ \E o \in Outcomes :
         IF o = "ok"
         THEN /\ trace' = Append(trace, EvStarted(total_files', skipped_count))
              /\ jpc' = "batch"
              /\ UNCHANGED faults
         ELSE /\ jpc' = "handler"
              /\ faults' = faults + 1
              /\ UNCHANGED trace
    /\ batch_idx' = 0
    /\ UNCHANGED <<libVars, chunkVars, pipeVars, indexer, dir_files, all_files, filtered_files,
                   fidx, indexed_count, skipped_count, error_count, i, file_chunks,
                   retval, handled>>

\* the files of the current batch
batch_files == SubSeq(filtered_files, batch_idx + 1,
                      Min(batch_idx + BATCH_SIZE, Len(filtered_files)))

\* lines 151-156: the head of the batch loop and the cleanup before a batch
BatchBegin ==
    /\ jpc = "batch"
    /\ IF batch_idx < Len(filtered_files)
       THEN \E o \in Outcomes :
              IF o = "ok"
              THEN /\ trace' = Append(trace, OpCleanup)
                   /\ jpc' = "file_begin"
                   /\ UNCHANGED faults
              ELSE \* _cleanup_memory raises
                   /\ jpc' = "handler"
                   /\ faults' = faults + 1
                   /\ UNCHANGED trace
       ELSE /\ jpc' = "complete"
            /\ UNCHANGED <<trace, faults>>
    /\ i' = 0
    /\ UNCHANGED <<libVars, chunkVars, pipeVars, indexer, dir_files, all_files, filtered_files,
                   fidx, total_files, indexed_count, skipped_count, error_count,
                   batch_idx, file_chunks, retval, handled>>

\* lines 159-169: memory usage and the "processing" status of a file
FileBegin ==
    /\ jpc = "file_begin"
    /\ \E o \in Outcomes :
         IF o = "ok"
         THEN /\ trace' = Append(trace, EvStatus("processing"))
              /\ jpc' = "file_index"
              /\ UNCHANGED faults
         ELSE \* _get_memory_usage or send_status raises
              /\ jpc' = "file_error"
              /\ faults' = faults + 1
              /\ UNCHANGED trace
    /\ UNCHANGED <<libVars, chunkVars, pipeVars, indexer, dir_files, all_files, filtered_files,
                   fidx, total_files, indexed_count, skipped_count, error_count,
                   batch_idx, i, file_chunks, retval, handled>>

\* lines 171-173: index_file on the file, its count added to indexed_count
FileIndex ==
    /\ jpc = "file_index"
    /\ LET file_path == batch_files[i + 1]
       IN  \E f \in JobFileCases(file_path.size) :
             /\ pfile' = f
             /\ pres' = index_file(f, idx_chunk_size, idx_chunk_overlap)
             /\ trace' = trace \o pres'.fx.notified
             /\ handled' = Append(handled, [file_path |-> file_path.path,
                                            outcome |-> pres'.fx.outcome,
                                            value |-> pres'.value,
                                            raised |-> pres'.kind = "raise"])
             /\ IF pres'.kind = "raise"
                THEN /\ jpc' = "file_error"
                     /\ UNCHANGED <<file_chunks, indexed_count>>
                ELSE /\ file_chunks' = pres'.value
                     /\ indexed_count' = indexed_count + file_chunks'
                     /\ jpc' = "file_progress"
    /\ UNCHANGED <<libVars, chunkVars, idx_chunk_size, idx_chunk_overlap, ppc, indexer, dir_files,
                   all_files, filtered_files, fidx, total_files, skipped_count,
                   error_count, batch_idx, i, retval, faults>>

\* a plausible slip: the event built from the first file of the batch
FileProgressFirstPath ==
    /\ jpc = "file_progress"
    /\ LET file_path == batch_files[1]
           overall_idx == batch_idx + i
       IN  \E o \in Outcomes :
             IF o = "ok"
             THEN /\ trace' = Append(trace, EvProgress(overall_idx + 1, total_files,
                                                       file_path.path, file_chunks))
                  /\ jpc' = "file_pace"
                  /\ UNCHANGED faults
             ELSE /\ jpc' = "file_error"
                  /\ faults' = faults + 1
                  /\ UNCHANGED trace
    /\ UNCHANGED <<libVars, chunkVars, pipeVars, indexer, dir_files, all_files, filtered_files,
                   fidx, total_files, indexed_count, skipped_count, error_count,
                   batch_idx, i, file_chunks, retval, handled>>

\* a plausible slip: the 0-based index sent as the current position
FileProgressZeroBased ==
    /\ jpc = "file_progress"
    /\ LET file_path == batch_files[i + 1]
           overall_idx == batch_idx + i
       IN  \E o \in Outcomes :
             IF o = "ok"
             THEN /\ trace' = Append(trace, EvProgress(overall_idx, total_files,
                                                       file_path.path, file_chunks))
                  /\ jpc' = "file_pace"
                  /\ UNCHANGED faults
             ELSE /\ jpc' = "file_error"
                  /\ faults' = faults + 1
                  /\ UNCHANGED trace
    /\ UNCHANGED <<libVars, chunkVars, pipeVars, indexer, dir_files, all_files, filtered_files,
                   fidx, total_files, indexed_count, skipped_count, error_count,
                   batch_idx, i, file_chunks, retval, handled>>

\* lines 175-182: the indexing_progress event of the file
FileProgress ==
    /\ jpc = "file_progress"
    /\ LET file_path == batch_files[i + 1]
           overall_idx == batch_idx + i
       IN  \E o \in Outcomes :
             IF o = "ok"
             THEN /\ trace' = Append(trace, EvProgress(overall_idx + 1, total_files,
                                                       file_path.path, file_chunks))
                  /\ jpc' = "file_pace"
                  /\ UNCHANGED faults
             ELSE /\ jpc' = "file_error"
                  /\ faults' = faults + 1
                  /\ UNCHANGED trace
    /\ UNCHANGED <<libVars, chunkVars, pipeVars, indexer, dir_files, all_files, filtered_files,
                   fidx, total_files, indexed_count, skipped_count, error_count,
                   batch_idx, i, file_chunks, retval, handled>>

\* a plausible slip: a file that raised is taken out of total_files
FileErrorDropsFile ==
    /\ jpc = "file_error"
    /\ error_count' = error_count + 1
    /\ total_files' = total_files - 1
    /\ LET file_path == batch_files[i + 1]
       IN  \E o \in Outcomes :
             IF o = "ok"
             THEN /\ trace' = Append(trace, EvError(file_path.path))
                  /\ jpc' = "file_pace"
                  /\ UNCHANGED faults
             ELSE /\ jpc' = "handler"
                  /\ faults' = faults + 1
                  /\ UNCHANGED trace
    /\ UNCHANGED <<libVars, chunkVars, pipeVars, indexer, dir_files, all_files, filtered_files,
                   fidx, indexed_count, skipped_count, batch_idx, i,
                   file_chunks, retval, handled>>

\* lines 183-187: the except clause of the file
FileError ==
    /\ jpc = "file_error"
    /\ error_count' = error_count + 1
    /\ LET file_path == batch_files[i + 1]
       IN  \E o \in Outcomes :
             IF o = "ok"
             THEN /\ trace' = Append(trace, EvError(file_path.path))
                  /\ jpc' = "file_pace"
                  /\ UNCHANGED faults
             ELSE /\ jpc' = "handler"
                  /\ faults' = faults + 1
                  /\ UNCHANGED trace
    /\ UNCHANGED <<libVars, chunkVars, pipeVars, indexer, dir_files, all_files, filtered_files,
                   fidx, total_files, indexed_count, skipped_count, batch_idx, i,
                   file_chunks, retval, handled>>

\* a plausible slip: the batch is left after a file that indexed nothing
FilePaceStopOnZero ==
    /\ jpc = "file_pace"
    /\ trace' = trace \o <<OpCollect, OpSleepFile>>
    /\ i' = i + 1
    /\ jpc' = IF i + 1 < Len(batch_files) /\ file_chunks > 0
              THEN "file_begin" ELSE "batch_end"
    /\ UNCHANGED <<libVars, chunkVars, pipeVars, indexer, dir_files, all_files, filtered_files,
                   fidx, total_files, indexed_count, skipped_count, error_count,
                   batch_idx, file_chunks, retval, handled, faults>>

\* a plausible slip: no delay after a file
FilePaceNoDelay ==
    /\ jpc = "file_pace"
    /\ trace' = trace \o <<OpCollect>>
    /\ i' = i + 1
    /\ jpc' = IF i + 1 < Len(batch_files) THEN "file_begin" ELSE "batch_end"
    /\ UNCHANGED <<libVars, chunkVars, pipeVars, indexer, dir_files, all_files, filtered_files,
                   fidx, total_files, indexed_count, skipped_count, error_count,
                   batch_idx, file_chunks, retval, handled, faults>>

\* lines 189-193: garbage collection and the delay after a file
FilePace ==
    /\ jpc = "file_pace"
    /\ trace' = trace \o <<OpCollect, OpSleepFile>>
    /\ i' = i + 1
    /\ jpc' = IF i + 1 < Len(batch_files) THEN "file_begin" ELSE "batch_end"
    /\ UNCHANGED <<libVars, chunkVars, pipeVars, indexer, dir_files, all_files, filtered_files,
                   fidx, total_files, indexed_count, skipped_count, error_count,
                   batch_idx, file_chunks, retval, handled, faults>>

\* line 196: the delay after a batch, then the next batch
BatchEnd ==
    /\ jpc = "batch_end"
    /\ trace' = Append(trace, OpSleepBatch)
    /\ batch_idx' = batch_idx + BATCH_SIZE
    /\ jpc' = "batch"
    /\ UNCHANGED <<libVars, chunkVars, pipeVars, indexer, dir_files, all_files, filtered_files,
                   fidx, total_files, indexed_count, skipped_count, error_count, i,
                   file_chunks, retval, handled, faults>>

\* a plausible slip: the files handed to index_file counted as total_chunks
CompleteCountsFiles ==
    /\ jpc = "complete"
    /\ \E o \in Outcomes :
         IF o = "ok"
         THEN /\ trace' = Append(trace, EvCompleted(total_files, Len(handled),
                                                    skipped_count, error_count))
              /\ jpc' = "returned"
              /\ retval' = indexed_count
              /\ UNCHANGED faults
         ELSE /\ jpc' = "handler"
              /\ faults' = faults + 1
              /\ UNCHANGED <<trace, retval>>
    /\ UNCHANGED <<libVars, chunkVars, pipeVars, indexer, dir_files, all_files, filtered_files,
                   fidx, total_files, indexed_count, skipped_count, error_count,
                   batch_idx, i, file_chunks, handled>>

\* lines 198-206: the indexing_completed event and the return
Complete ==
    /\ jpc = "complete"
    /\ \E o \in Outcomes :
         IF o = "ok"
         THEN /\ trace' = Append(trace, EvCompleted(total_files, indexed_count,
                                                    skipped_count, error_count))
              /\ jpc' = "returned"
              /\ retval' = indexed_count
              /\ UNCHANGED faults
         ELSE /\ jpc' = "handler"
              /\ faults' = faults + 1
              /\ UNCHANGED <<trace, retval>>
    /\ UNCHANGED <<libVars, chunkVars, pipeVars, indexer, dir_files, all_files, filtered_files,
                   fidx, total_files, indexed_count, skipped_count, error_count,
                   batch_idx, i, file_chunks, handled>>

\* a plausible slip: the except clause re-raises after reporting
HandlerReraise ==
    /\ jpc = "handler"
    /\ trace' = Append(trace, EvError(NoPath))
    /\ jpc' = "raised"
    /\ UNCHANGED <<libVars, chunkVars, pipeVars, indexer, dir_files, all_files, filtered_files,
                   fidx, total_files, indexed_count, skipped_count, error_count,
                   batch_idx, i, file_chunks, handled, retval, faults>>

\* lines 207-211: the except clause of the job
Handler ==
    /\ jpc = "handler"
    /\ \E o \in Outcomes :
         IF o = "ok"
         THEN /\ trace' = Append(trace, EvError(NoPath))
              /\ jpc' = "returned"
              /\ retval' = indexed_count
              /\ UNCHANGED faults
         ELSE \* send_error raises inside the except clause
              /\ jpc' = "raised"
              /\ faults' = faults + 1
              /\ UNCHANGED <<trace, retval>>
    /\ UNCHANGED <<libVars, chunkVars, pipeVars, indexer, dir_files, all_files, filtered_files,
                   fidx, total_files, indexed_count, skipped_count, error_count,
                   batch_idx, i, file_chunks, handled>>

Next ==
    \/ Enter \/ Enumerate \/ FilterFile \/ SendStarted \/ BatchBegin
    \/ FileBegin \/ FileIndex \/ FileProgress \/ FileError \/ FilePace
    \/ BatchEnd \/ Complete \/ Handler

Spec == Init /\ [][Next]_vars

----------------------------------------------------------------------------
(* Properties of index_file *)

\* C5: index_file never raises to its caller: whatever fails inside it, the
\* call returns an integer count >= 0.
C5_IndexFileNeverRaises ==
    ppc = "returned" => (pres.kind = "return" /\ pres.value \in Nat)

\* C5 witness: a call in which os.path.getsize raised, outside every inner
\* try, has returned 0.
C5_Witness ==
    /\ ppc = "returned"
    /\ pfile.parser /\ pfile.getsize = "raise"
    /\ pres.kind = "return" /\ pres.value = 0

----------------------------------------------------------------------------
(* Properties of IndexingService.index_directory *)

\* the job is over: index_directory returned or raised
Ended == jpc \in {"returned", "raised"}

\* the positions in the trace of the events of one kind
EventsOf(kind) == {k \in DOMAIN trace : trace[k].ev = kind}

\* the positions in the trace of the events of one kind about one file
EventsAbout(kind, path) ==
    {k \in EventsOf(kind) : trace[k].file_path = path}

\* the index_file calls that ended in one terminal state
HandledAs(outcome) == {k \in DOMAIN handled : handled[k].outcome = outcome}

\* C1 as stated: every run of index_directory has emitted indexing_completed
\* exactly once when it returns, however it came to return.
C1_AsStated ==
    jpc = "returned" => Cardinality(EventsOf("indexing_completed")) = 1

\* C2 as stated: when index_file has got at least one chunk out of a file and
\* embedded it, it returns the number of records the store reports as
\* accepted for them (> 0 when the store accepts one), and the progress event
\* of the file carries that number.
C2_AsStated ==
    (/\ jpc \in {"file_progress", "file_pace"}
     /\ pres.fx.nchunks >= 1
     /\ pfile.embed # "raise") =>
        LET reported == index_documents(pres.fx.nchunks, pfile.store).success
        IN  /\ pres.value = reported
            /\ file_chunks = reported
            /\ (jpc = "file_pace" /\ trace[Len(trace)].ev = "indexing_progress") =>
                   trace[Len(trace)].chunks_indexed = reported

\* C3 as stated: once index_file has returned for a file, a file that ended
\* Skipped has an indexing_warning with its path in the events, and a file
\* that ended Failed has an indexing_error with its path.
C3_AsStated ==
    \A k \in DOMAIN handled :
        /\ handled[k].outcome = "Skipped" =>
               EventsAbout("indexing_warning", handled[k].file_path) # {}
        /\ handled[k].outcome = "Failed" =>
               EventsAbout("indexing_error", handled[k].file_path) # {}

\* C4 as stated, for the runs in which no call of the job itself failed: the
\* indexing_completed event carries as error_files the number of files whose
\* processing failed and as skipped_files the number of files skipped, over
\* the size limit or inside index_file.
C4_AsStated ==
    \A k \in EventsOf("indexing_completed") :
        faults = 0 =>
        /\ trace[k].error_files = Cardinality(HandledAs("Failed"))
        /\ trace[k].skipped_files =
               Cardinality(EventsOf("indexing_warning")) + Cardinality(HandledAs("Skipped"))

InFilterOrder ==
    \E pos \in [DOMAIN handled -> DOMAIN filtered_files] :
        /\ \A k \in DOMAIN handled : handled[k].file_path = filtered_files[pos[k]].path
        /\ \A k, m \in DOMAIN handled : k < m => pos[k] < pos[m]

----------------------------------------------------------------------------
(* Further properties of chunk_text *)

\* C11 as stated: every chunk of the list chunk_text returns has at least one
\* non-whitespace character, whatever the input text.
C11_AsStated ==
    cpc = "done" => \A k \in DOMAIN loop.chunks : StripNonEmpty(loop.chunks[k])

\* C12: after every window of the loop the next start is not earlier than the
\* end of that window minus the effective overlap, the overlap argument capped
\* at half the (capped) chunk_size; consecutive windows share at most that
\* many characters.
C12_OverlapBounded ==
    [][ChunkIterate =>
          /\ chunk_overlap = Min(arg_overlap, CapChunkSize(arg_chunk_size) \div 2)
          /\ loop'.start >= loop'.end - chunk_overlap]_vars

\* C12 witness: the overlap argument was capped, two chunks have been emitted
\* and the next window starts the effective overlap before the end of the
\* last one.
C12_Witness ==
    /\ cpc = "loop"
    /\ arg_overlap > chunk_overlap /\ chunk_overlap >= 1
    /\ Len(loop.chunks) >= 2
    /\ loop.start = loop.end - chunk_overlap

----------------------------------------------------------------------------
(* EmbeddingGenerator.generate_embeddings *)

MaxPassages == 4
MaxBatch == 3
MaxDim == 2

\* len(chunks) > 100 lowers batch_size to 2
ManyChunks == 100
ReducedBatch == 2
\* config.BATCH_SIZE, the default of the batch_size argument
config_BATCH_SIZE == 50

\* self.model.encode(...).tolist() for one passage: a vector of embedding_dim
\* numbers that is not the zero vector and tells the passages apart
Encode(dim, passage) == [j \in 1..dim |-> passage]

\* [0.0] * self.embedding_dim
ZeroVector(dim) == [j \in 1..dim |-> 0]

\* lines 59-60: the batch size the loop runs with
EffectiveBatch(n, bs) == IF n > ManyChunks /\ bs > ReducedBatch THEN ReducedBatch ELSE bs

\* a plausible slip: a failed batch always filled with batch_size zero vectors
ZeroCountFull(bs, n, i0) == bs

\* line 88: the number of zero vectors appended for a failed batch
ZeroCount(bs, n, i0) == Min(bs, n - i0)

\* the passages 1..n in order
Passages(n) == [k \in 1..n |-> k]

\* the batch start offsets range(0, n, bs) goes through
BatchStarts(n, bs) == {k \in 0..(n - 1) : k % bs = 0}

\* which encode calls raise: any set of batches for a short list, the first
\* and the last batch for a long one
EncodeFailures(n, bs) ==
    IF n <= MaxPassages THEN SUBSET BatchStarts(n, bs)
    ELSE SUBSET {0, ((n - 1) \div bs) * bs}

EmbedInit ==
    /\ ChunkOff /\ PipeOff /\ JobOff /\ DetOff /\ ConcOff /\ StoreOff /\ IdOff
    /\ epc = "call"
    /\ emb_chunks \in {Passages(n) : n \in (0..MaxPassages) \cup {ManyChunks + 1}}
    /\ arg_batch_size \in (1..MaxBatch) \cup {config_BATCH_SIZE}
    /\ embedding_dim \in 1..MaxDim
    /\ encode_raises \in EncodeFailures(Len(emb_chunks),
                                        EffectiveBatch(Len(emb_chunks), arg_batch_size))
    /\ batch_size = arg_batch_size /\ emb_i = 0 /\ all_embeddings = <<>>
    /\ emb_ops = <<>>

\* lines 56-67: the result list and the lowered batch size
EmbedEnter ==
    /\ epc = "call"
    /\ all_embeddings' = <<>>
    /\ batch_size' = EffectiveBatch(Len(emb_chunks), arg_batch_size)
    /\ emb_i' = 0
    /\ emb_ops' = <<>>
    /\ epc' = "loop"
    /\ UNCHANGED <<chunkVars, pipeVars, jobVars, detVars, concVars, idVars, storeVars, emb_chunks, arg_batch_size,
                   embedding_dim, encode_raises>>

\* gc.collect() and torch.cuda.empty_cache(): lines 72-74, 96-98 and 107-109
OpRelease == "release"

\* time.sleep(0.2), line 101
OpSleep == "sleep"

\* len(chunks) > 10: a tqdm progress bar is made and updated after each batch
ProgressBarFrom == 10

\* a plausible slip: the except clause goes on to the next batch at once
BatchOpsContinue(failed) ==
    IF failed THEN <<OpRelease, "encode_failed">>
    ELSE <<OpRelease, "encode", OpRelease, OpSleep>>

\* lines 71-101: what one batch does besides appending its vectors
BatchOps(failed) ==
    <<OpRelease, IF failed THEN "encode_failed" ELSE "encode", OpRelease, OpSleep>>

\* lines 70-101: one batch; its vectors are appended, or zero vectors when
\* the encode call raised.  progress_bar.update is outside the inner try: when
\* it raises, the finally clause runs and the exception leaves the call.
EmbedBatch ==
    /\ epc = "loop"
    /\ emb_i < Len(emb_chunks)
    /\ LET batch == Slice(emb_chunks, emb_i, emb_i + batch_size)
       IN  all_embeddings' =
             IF emb_i \in encode_raises
             THEN all_embeddings \o
                    [k \in 1..ZeroCount(batch_size, Len(emb_chunks), emb_i)
                        |-> ZeroVector(embedding_dim)]
             ELSE all_embeddings \o
                    [k \in 1..Len(batch) |-> Encode(embedding_dim, batch[k])]
    /\ \/ /\ emb_ops' = emb_ops \o BatchOps(emb_i \in encode_raises)
          /\ emb_i' = emb_i + batch_size
          /\ epc' = epc
       \/ /\ Len(emb_chunks) > ProgressBarFrom
          /\ emb_ops' = emb_ops \o SubSeq(BatchOps(emb_i \in encode_raises), 1, 2)
                                \o <<OpRelease>>
          /\ emb_i' = emb_i
          /\ epc' = "raised"
    /\ UNCHANGED <<chunkVars, pipeVars, jobVars, detVars, concVars, idVars, storeVars, emb_chunks, arg_batch_size,
                   embedding_dim, encode_raises, batch_size>>

\* lines 102-111: the range is exhausted, the finally clause runs and
\* all_embeddings is returned
EmbedReturn ==
    /\ epc = "loop"
    /\ emb_i >= Len(emb_chunks)
    /\ emb_ops' = Append(emb_ops, OpRelease)
    /\ epc' = "returned"
    /\ UNCHANGED <<chunkVars, pipeVars, jobVars, detVars, concVars, idVars, storeVars, emb_chunks, arg_batch_size,
                   embedding_dim, encode_raises, batch_size, emb_i, all_embeddings>>

EmbedNext == EmbedEnter \/ EmbedBatch \/ EmbedReturn

EmbedSpec == EmbedInit /\ [][EmbedNext]_vars

\* C13: generate_embeddings returns one vector per passage in the order of
\* the passages; the passages of a batch whose encode call raised have the
\* zero vector of length embedding_dim, every other passage has the vector
\* the encoder gives for it.
C13_OneVectorPerPassage ==
    epc = "returned" =>
        /\ Len(all_embeddings) = Len(emb_chunks)
        /\ \A k \in 1..Len(emb_chunks) :
              all_embeddings[k] =
                  IF ((k - 1) \div batch_size) * batch_size \in encode_raises
                  THEN ZeroVector(embedding_dim)
                  ELSE Encode(embedding_dim, emb_chunks[k])

\* C13 witness: a call returned in which a full batch was encoded and the
\* last, shorter batch failed.
C13_Witness ==
    /\ epc = "returned"
    /\ Len(emb_chunks) > batch_size
    /\ Len(emb_chunks) % batch_size # 0
    /\ 0 \notin encode_raises
    /\ ((Len(emb_chunks) - 1) \div batch_size) * batch_size \in encode_raises

----------------------------------------------------------------------------
(* Further properties of IndexingService.index_directory *)

\* the enumerated files above the size cap, and those within it
Oversize == {k \in DOMAIN all_files : all_files[k].size > MAX_FILE_SIZE}
WithinCap == {k \in DOMAIN all_files : all_files[k].size <= MAX_FILE_SIZE}

\* C14: a file above the size cap is never handed to index_file and gets at
\* most one indexing_warning with its path, a file within the cap gets none;
\* once filtering is over, indexing_started (and later indexing_completed)
\* carries as total_files the number of enumerated files within the cap and as
\* skipped_files the number above it, and every file above the cap has got
\* exactly one warning.
C14_OversizeSkipped ==
    /\ \A h \in DOMAIN handled : \A k \in Oversize :
           handled[h].file_path # all_files[k].path
    /\ \A k \in Oversize :
           Cardinality(EventsAbout("indexing_warning", all_files[k].path)) <= 1
    /\ \A k \in WithinCap : EventsAbout("indexing_warning", all_files[k].path) = {}
    /\ \A e \in EventsOf("indexing_started") \cup EventsOf("indexing_completed") :
           /\ trace[e].total_files = Cardinality(WithinCap)
           /\ trace[e].skipped_files = Cardinality(Oversize)
           /\ \A k \in Oversize :
                  Cardinality({w \in EventsAbout("indexing_warning", all_files[k].path) :
                                  w < e}) = 1

\* C14 witness: a job completed over a directory listing a file above the cap
\* before a file within it; the one within the cap was handed to index_file.
C14_Witness ==
    /\ jpc = "returned"
    /\ EventsOf("indexing_completed") # {}
    /\ Len(dir_files) = 2
    /\ dir_files[1].size > MAX_FILE_SIZE /\ dir_files[2].size <= MAX_FILE_SIZE
    /\ Len(handled) = 1 /\ handled[1].file_path = dir_files[2].path
    /\ EventsAbout("indexing_warning", dir_files[1].path) # {}

\* the positions of the job at which the processing loop runs or is over
PastFiltering == {"batch", "file_begin", "file_index", "file_progress", "file_error",
                  "file_pace", "batch_end", "complete"}

\* the positions in the trace of the events sent while a file is processed
FileEvents ==
    {k \in DOMAIN trace :
        \/ trace[k].ev = "indexing_progress"
        \/ trace[k].ev = "indexing_status" /\ trace[k].status = "processing"
        \/ trace[k].ev = "indexing_error" /\ trace[k].file_path # NoPath}

\* C15: indexing_started is never emitted twice; a run that is in its
\* processing loop, has handed a file to index_file or has completed has
\* emitted it exactly once; it comes after every oversize-file warning and
\* before every event of a processed file, and carries the number of files
\* that passed the filter and the number the filter skipped.
C15_StartedOnce ==
    /\ Cardinality(EventsOf("indexing_started")) <= 1
    /\ (\/ jpc \in PastFiltering
        \/ handled # <<>>
        \/ EventsOf("indexing_completed") # {}) =>
            Cardinality(EventsOf("indexing_started")) = 1
    /\ \A e \in EventsOf("indexing_started") :
           /\ \A w \in EventsOf("indexing_warning") : w < e
           /\ \A k \in FileEvents : e < k
           /\ trace[e].total_files = Len(filtered_files)
           /\ trace[e].total_files = Cardinality(WithinCap)
           /\ trace[e].skipped_files = skipped_count
           /\ trace[e].skipped_files = Cardinality(Oversize)

\* C15 witness: a run over a file above the cap and two within it sent the
\* warning, then indexing_started with totals 2 and 1, and has processed a
\* file since.
C15_Witness ==
    /\ Cardinality(Oversize) = 1 /\ Cardinality(WithinCap) = 2
    /\ handled # <<>>
    /\ \E e \in EventsOf("indexing_started") :
           /\ trace[e].total_files = 2 /\ trace[e].skipped_files = 1
           /\ \E w \in EventsOf("indexing_warning") : w < e
           /\ \E k \in EventsOf("indexing_progress") : e < k

\* C16: in the events of one run, indexing_started precedes every
\* indexing_progress; the indexing_progress events follow the order in which
\* the files are processed (the event numbered n is about the n-th file handed
\* to the loop, and the numbers increase), no file has two of them, and every
\* file whose processing ran without an exception has one, carrying what
\* index_file returned; indexing_completed is emitted at most once, after
\* every indexing_progress, and nothing follows it.
C16_EventsOrdered ==
    /\ \A p \in EventsOf("indexing_progress") :
           /\ \E e \in EventsOf("indexing_started") : e < p
           /\ trace[p].current \in DOMAIN filtered_files
           /\ trace[p].file_path = filtered_files[trace[p].current].path
           /\ \A q \in EventsOf("indexing_progress") :
                  p < q => trace[p].current < trace[q].current
           /\ \E h \in DOMAIN handled :
                  /\ handled[h].file_path = trace[p].file_path
                  /\ handled[h].value = trace[p].chunks_indexed
    /\ (faults = 0 /\ jpc # "file_progress") =>
           /\ Cardinality(EventsOf("indexing_progress")) = Len(handled)
           /\ \A h \in DOMAIN handled :
                  Cardinality(EventsAbout("indexing_progress", handled[h].file_path)) = 1
    /\ Cardinality(EventsOf("indexing_completed")) <= 1
    /\ \A c \in EventsOf("indexing_completed") :
           /\ c = Len(trace)
           /\ \A p \in EventsOf("indexing_progress") \cup EventsOf("indexing_started") : p < c

\* C16 witness: a run over two files has ended with indexing_started, the
\* progress event of the first file, that of the second, and
\* indexing_completed, in this order.
C16_Witness ==
    /\ jpc = "returned" /\ Len(filtered_files) = 2
    /\ \E e \in EventsOf("indexing_started") :
       \E p \in EventsAbout("indexing_progress", filtered_files[1].path) :
       \E q \in EventsAbout("indexing_progress", filtered_files[2].path) :
       \E c \in EventsOf("indexing_completed") :
           e < p /\ p < q /\ q < c /\ c = Len(trace)

\* the sum of chunks_indexed over the indexing_progress events among the
\* first k events
RECURSIVE SumProgress(_)
SumProgress(k) ==
    IF k = 0 THEN 0
    ELSE SumProgress(k - 1) +
         (IF trace[k].ev = "indexing_progress" THEN trace[k].chunks_indexed ELSE 0)

SizeOf(path) == dir_files[CHOOSE k \in DOMAIN dir_files : dir_files[k].path = path].size

\* C18: of any two files handed to index_file in one run, the one handed
\* earlier is not larger than the one handed later, whatever the order in
\* which the enumeration listed them.
C18_AscendingSize ==
    \A h1, h2 \in DOMAIN handled :
        h1 < h2 => SizeOf(handled[h1].file_path) <= SizeOf(handled[h2].file_path)

\* C18 witness: the enumeration listed a larger file before a smaller one and
\* both have been handed to index_file, the smaller one first.
C18_Witness ==
    /\ Len(dir_files) >= 2 /\ Len(handled) >= 2
    /\ dir_files[1].size > dir_files[2].size
    /\ handled[1].file_path = dir_files[2].path
    /\ handled[2].file_path = dir_files[1].path

----------------------------------------------------------------------------
(* DocumentIndexer.__init__: the schema of the collection *)

MaxStoreFaults == 2

\* no collection of the configured name
NoCollection == 0

\* the num_dim _create_collection gives a collection made without a dimension
DefaultDim == 384

\* the dimensions a model or an existing collection can have
Dims == (1..MaxDim) \cup {DefaultDim}

\* a Typesense call goes well, or raises while failures are left
StoreOutcomes == IF store_faults < MaxStoreFaults THEN {"ok", "raise"} ELSE {"ok"}

StoreInit ==
    /\ ChunkOff /\ PipeOff /\ JobOff /\ DetOff /\ ConcOff /\ IdOff
    /\ epc = "off" /\ emb_chunks = <<>> /\ arg_batch_size = 0
    /\ encode_raises = {} /\ batch_size = 0 /\ emb_i = 0 /\ all_embeddings = <<>>
    /\ emb_ops = <<>>
    /\ embedding_dim \in Dims
    /\ spc = "wait"
    /\ recreate_collection \in BOOLEAN
    /\ collection0 \in Dims \cup {NoCollection}
    /\ collection = collection0
    /\ store_faults = 0

\* typesense_storage.py lines 47-61: Typesense answers in time, or the
\* ConnectionError that DocumentIndexer.__init__ passes on
WaitForTypesense ==
    /\ spc = "wait"
    /\ \E ready \in BOOLEAN : spc' = IF ready THEN "create_collection" ELSE "raised"
    /\ UNCHANGED <<chunkVars, pipeVars, jobVars, detVars, concVars, idVars, embVars, recreate_collection,
                   collection0, collection, store_faults>>

\* _create_collection(): a missing collection is created with the default
\* dimension; every exception is printed and dropped
CreateCollection ==
    /\ spc = "create_collection"
    /\ \E retrieve \in StoreOutcomes :
         IF retrieve = "raise"
         THEN collection' = collection /\ store_faults' = store_faults + 1
         ELSE IF collection # NoCollection
         THEN UNCHANGED <<collection, store_faults>>
         ELSE \E create \in StoreOutcomes :
                IF create = "ok"
                THEN collection' = DefaultDim /\ UNCHANGED store_faults
                ELSE collection' = collection /\ store_faults' = store_faults + 1
    /\ spc' = "setup"
    /\ UNCHANGED <<chunkVars, pipeVars, jobVars, detVars, concVars, idVars, embVars, recreate_collection,
                   collection0>>

\* indexer.py lines 62-67 and update_schema up to its comparison: the
\* collection is to be recreated on request or when its num_dim differs from
\* the model's; an exception of the retrieve is printed and dropped
SchemaSetup ==
    /\ spc = "setup"
    /\ IF recreate_collection
       THEN spc' = "delete" /\ UNCHANGED store_faults
       ELSE \E retrieve \in StoreOutcomes :
              IF retrieve = "raise"
              THEN spc' = "ready" /\ store_faults' = store_faults + 1
              ELSE /\ UNCHANGED store_faults
                   /\ spc' = IF collection # NoCollection /\ collection # embedding_dim
                             THEN "delete" ELSE "ready"
    /\ UNCHANGED <<chunkVars, pipeVars, jobVars, detVars, concVars, idVars, embVars, recreate_collection,
                   collection0, collection>>

\* recreate_collection line 140, delete_collection(): an existing collection
\* is deleted; every exception is printed and dropped
DeleteCollection ==
    /\ spc = "delete"
    /\ \E retrieve \in StoreOutcomes :
         IF retrieve = "raise"
         THEN collection' = collection /\ store_faults' = store_faults + 1
         ELSE IF collection = NoCollection
         THEN UNCHANGED <<collection, store_faults>>
         ELSE \E delete \in StoreOutcomes :
                IF delete = "ok"
                THEN collection' = NoCollection /\ UNCHANGED store_faults
                ELSE collection' = collection /\ store_faults' = store_faults + 1
    /\ spc' = "create"
    /\ UNCHANGED <<chunkVars, pipeVars, jobVars, detVars, concVars, idVars, embVars, recreate_collection,
                   collection0>>

\* recreate_collection lines 142-164: the collection is created with the
\* model's dimension; Typesense refuses a name that exists; the exception is
\* printed, False returned, and the caller does not look at it
RecreateCollection ==
    /\ spc = "create"
    /\ \E create \in StoreOutcomes :
         IF create = "raise"
         THEN collection' = collection /\ store_faults' = store_faults + 1
         ELSE /\ collection' = IF collection = NoCollection THEN embedding_dim
                                                            ELSE collection
              /\ UNCHANGED store_faults
    /\ spc' = "ready"
    /\ UNCHANGED <<chunkVars, pipeVars, jobVars, detVars, concVars, idVars, embVars, recreate_collection,
                   collection0>>

StoreNext ==
    \/ WaitForTypesense \/ CreateCollection \/ SchemaSetup
    \/ DeleteCollection \/ RecreateCollection

StoreSpec == StoreInit /\ [][StoreNext]_vars

\* C19 as stated: a DocumentIndexer built with recreate_collection = false
\* over a collection whose num_dim differs from the model's dimension has,
\* when its construction is over and before anything is upserted, a collection
\* with the model's dimension.
C19_AsStated ==
    (/\ spc = "ready"
     /\ ~recreate_collection
     /\ collection0 # NoCollection /\ collection0 # embedding_dim) =>
        collection = embedding_dim

----------------------------------------------------------------------------
(* TypesenseStorage.prepare_document and the ids of index_documents *)

MaxPathLen == 2
MaxChunkId == 11

\* the characters of a file path: a letter, the separator of the id, a digit
PathAlphabet == {"a", "_", "1"}

\* str(d) for a digit d
Digit(d) == CASE d = 0 -> "0" [] d = 1 -> "1" [] d = 2 -> "2" [] d = 3 -> "3"
              [] d = 4 -> "4" [] d = 5 -> "5" [] d = 6 -> "6" [] d = 7 -> "7"
              [] d = 8 -> "8" [] d = 9 -> "9"

\* str(n) for an int n >= 0: its decimal digits
RECURSIVE Str(_)
Str(n) == IF n < 10 THEN <<Digit(n)>> ELSE Append(Str(n \div 10), Digit(n % 10))

\* a plausible slip: the id formatted with no separator
FormatIdPlain(file_path, chunk_id) == file_path \o Str(chunk_id)

\* f"{file_path}_{chunk_id}"
FormatId(file_path, chunk_id) == file_path \o <<"_">> \o Str(chunk_id)

\* prepare_document: the record of one chunk; metadata gets the time of the call
prepare_document(file_path, chunk_id, content, embedding, now) ==
    [_id |-> FormatId(file_path, chunk_id),
     _source |-> [content |-> content, content_vector |-> embedding,
                  file_path |-> file_path, chunk_id |-> chunk_id,
                  metadata |-> [indexed_at |-> now]]]

\* index_documents lines 204-226: the document handed to Typesense; the id is
\* the document's _id (a document of prepare_document always has one)
TypesenseDoc(doc) ==
    [id |-> doc._id,
     content |-> doc._source.content,
     content_vector |-> doc._source.content_vector,
     file_path |-> doc._source.file_path,
     chunk_id |-> doc._source.chunk_id,
     metadata |-> doc._source.metadata]

RECURSIVE PathsUpTo(_)
PathsUpTo(n) == IF n = 0 THEN {<<>>}
                ELSE LET shorter == PathsUpTo(n - 1)
                     IN  shorter \cup {Append(q, c) : q \in {u \in shorter : Len(u) = n - 1},
                                                      c \in PathAlphabet}

\* the arguments of one prepare_document call: a chunk of a file in one run
\* chunk indexes of one and of two digits
ChunkIds == {0, 1, 10, MaxChunkId}

DocArgs == [file_path : PathsUpTo(MaxPathLen), chunk_id : ChunkIds, now : {1, 2}]

IdInit ==
    /\ ChunkOff /\ PipeOff /\ JobOff /\ DetOff /\ ConcOff /\ EmbOff /\ StoreOff
    /\ ipc = "call"
    /\ doc_args \in [1..2 -> DocArgs]
    /\ documents = <<>> /\ typesense_docs = <<>>

\* indexer.py lines 225-234: the documents of the chunks are prepared
PrepareDocuments ==
    /\ ipc = "call"
    /\ documents' = [k \in 1..2 |->
                        prepare_document(doc_args[k].file_path, doc_args[k].chunk_id,
                                         <<"a">>, <<1>>, doc_args[k].now)]
    /\ ipc' = "prepared"
    /\ UNCHANGED <<chunkVars, pipeVars, jobVars, detVars, concVars, embVars, storeVars, doc_args,
                   typesense_docs>>

\* index_documents lines 201-227: the documents are converted for the import
ConvertDocuments ==
    /\ ipc = "prepared"
    /\ typesense_docs' = [k \in 1..2 |-> TypesenseDoc(documents[k])]
    /\ ipc' = "converted"
    /\ UNCHANGED <<chunkVars, pipeVars, jobVars, detVars, concVars, embVars, storeVars, doc_args, documents>>

IdNext == PrepareDocuments \/ ConvertDocuments

IdSpec == IdInit /\ [][IdNext]_vars

\* C20: the id of a record is a function of (file path, chunk index) alone,
\* the same in every run, and an injective one: two records have the same id
\* exactly when they have the same path and the same chunk index.
C20_IdInjective ==
    ipc = "converted" =>
        (typesense_docs[1].id = typesense_docs[2].id
            <=> /\ doc_args[1].file_path = doc_args[2].file_path
                /\ doc_args[1].chunk_id = doc_args[2].chunk_id)

\* C20 witness: the same chunk of the same file prepared in two runs (two
\* times of the call) has one id; the path holds the separator and a digit.
C20_Witness ==
    /\ ipc = "converted"
    /\ doc_args[1].file_path = <<"_", "1">> /\ doc_args[2].file_path = <<"_", "1">>
    /\ doc_args[1].chunk_id = MaxChunkId /\ doc_args[2].chunk_id = MaxChunkId
    /\ doc_args[1].now # doc_args[2].now
    /\ typesense_docs[1].id = typesense_docs[2].id
    /\ typesense_docs[1].metadata # typesense_docs[2].metadata

----------------------------------------------------------------------------
(* index_file lines 201-234: from the chunks to the records of a file *)

\* a plausible slip: the records numbered from 1
BuildDocumentsFromOne(file_path, cks, embeddings, now) ==
    [k \in 1..Min(Len(cks), Len(embeddings)) |->
        prepare_document(file_path, k, cks[k], embeddings[k], now)]

\* lines 224-234: for i, (chunk, embedding) in enumerate(zip(chunks,
\* all_embeddings)): prepare_document(chunk_id = i, ...)
BuildDocuments(file_path, cks, embeddings, now) ==
    [k \in 1..Min(Len(cks), Len(embeddings)) |->
        prepare_document(file_path, k - 1, cks[k], embeddings[k], now)]

\* lines 207-209: chunks[:MAX_CHUNKS_PER_FILE]
LimitChunks(cks) ==
    IF Len(cks) > MAX_CHUNKS_PER_FILE THEN SubSeq(cks, 1, MAX_CHUNKS_PER_FILE) ELSE cks

\* lines 201-220: chunk_text has returned a non-empty list; it is cut to the
\* limit and handed to generate_embeddings with the default batch size
TakeChunks ==
    /\ cpc = "done" /\ epc = "off"
    /\ loop.chunks # <<>>
    /\ emb_chunks' = LimitChunks(loop.chunks)
    /\ arg_batch_size' = config_BATCH_SIZE
    /\ batch_size' = config_BATCH_SIZE
    /\ embedding_dim' \in 1..MaxDim
    /\ encode_raises' \in EncodeFailures(Len(emb_chunks'),
                                         EffectiveBatch(Len(emb_chunks'), config_BATCH_SIZE))
    /\ epc' = "call"
    /\ UNCHANGED <<chunkVars, pipeVars, jobVars, detVars, concVars, storeVars, idVars, emb_i, all_embeddings,
                   emb_ops>>

\* lines 222-234: generate_embeddings has returned and the records are built
RecordsBuilt ==
    /\ cpc = "done" /\ epc = "returned" /\ ipc = "off"
    /\ documents' = BuildDocuments(<<"a">>, emb_chunks, all_embeddings, 1)
    /\ ipc' = "prepared"
    /\ UNCHANGED <<chunkVars, pipeVars, jobVars, detVars, concVars, storeVars, embVars, doc_args,
                   typesense_docs>>

RecordNext == ChunkNext \/ TakeChunks \/ EmbedNext \/ RecordsBuilt

RecordSpec == ChunkInit /\ [][RecordNext]_vars

\* C21: the records built for a file are as many as its chunks after the
\* limit; their chunk_id values are 0, 1, ..., n-1 in this order, and record i
\* holds the i-th chunk that chunk_text returned and the i-th vector that
\* generate_embeddings returned.
C21_RecordsNumbered ==
    (cpc = "done" /\ ipc = "prepared") =>
        /\ Len(documents) = Len(LimitChunks(loop.chunks))
        /\ \A k \in 1..Len(documents) :
              /\ documents[k]._source.chunk_id = k - 1
              /\ documents[k]._id = FormatId(<<"a">>, k - 1)
              /\ documents[k]._source.content = loop.chunks[k]
              /\ documents[k]._source.content_vector = all_embeddings[k]

\* C21 witness: the records of a text cut at the chunk limit have been built,
\* the last of them numbered one less than the limit.
C21_Witness ==
    /\ cpc = "done" /\ ipc = "prepared"
    /\ Len(documents) = MAX_CHUNKS_PER_FILE
    /\ Len(arg_text) > MAX_CHUNKS_PER_FILE
    /\ documents[MAX_CHUNKS_PER_FILE]._source.chunk_id = MAX_CHUNKS_PER_FILE - 1

----------------------------------------------------------------------------
(* Further properties of index_file *)

\* C22 as stated: when index_file has chunked and embedded a file and the
\* store accepts all of its records but one, the count of rejected records
\* reaches the caller or a Notifier, and the accepted ones are counted.
C22_AsStated ==
    (/\ ppc = "returned"
     /\ pres.fx.nchunks >= 2
     /\ pfile.embed # "raise"
     /\ pfile.store = "part") =>
        /\ pres.fx.notified # <<>>
        /\ pres.value = index_documents(pres.fx.nchunks, pfile.store).success

----------------------------------------------------------------------------
(* start_indexing: the jobs of the event loop *)

MaxTasks == 2

\* the collections a request can name
CollectionNames == {"docs", "other"}

ConcInit ==
    /\ ChunkOff /\ PipeOff /\ JobOff /\ DetOff /\ EmbOff /\ StoreOff /\ IdOff
    /\ tasks = <<>>

\* socket_handlers.py lines 57-87: a start_indexing event builds a new
\* IndexingService and schedules its index_directory as a task; nothing is
\* looked up about the jobs already there
StartIndexing ==
    /\ Len(tasks) < MaxTasks
    /\ \E c \in CollectionNames, recreate \in BOOLEAN, n \in 0..MaxFiles :
         tasks' = Append(tasks, [collection_name |-> c, recreate_collection |-> recreate,
                                 files_left |-> n, pc |-> "created"])
    /\ UNCHANGED <<chunkVars, pipeVars, jobVars, detVars, embVars, storeVars, idVars>>

\* indexing_service.py lines 106-107, 67-69: the task runs up to the await of
\* the first send_status
TaskStart(j) ==
    /\ tasks[j].pc = "created"
    /\ tasks' = [tasks EXCEPT ![j].pc = "checking"]
    /\ UNCHANGED <<chunkVars, pipeVars, jobVars, detVars, embVars, storeVars, idVars>>

\* lines 71-86, 114-148: Typesense is checked, the DocumentIndexer built (the
\* collection set up or recreated), the files listed and filtered, up to the
\* await of send_indexing_started; or Typesense is not there and the job ends
TaskSetup(j) ==
    /\ tasks[j].pc = "checking"
    /\ \E reachable \in BOOLEAN :
         tasks' = [tasks EXCEPT ![j].pc = IF reachable THEN "started" ELSE "finished"]
    /\ UNCHANGED <<chunkVars, pipeVars, jobVars, detVars, embVars, storeVars, idVars>>

\* lines 158-193: one file, from the await of send_status to the await of the
\* sleep after it
TaskFile(j) ==
    /\ tasks[j].pc = "started"
    /\ tasks[j].files_left > 0
    /\ tasks' = [tasks EXCEPT ![j].files_left = @ - 1]
    /\ UNCHANGED <<chunkVars, pipeVars, jobVars, detVars, embVars, storeVars, idVars>>

\* lines 198-206: the completion event and the return
TaskComplete(j) ==
    /\ tasks[j].pc = "started"
    /\ tasks[j].files_left = 0
    /\ tasks' = [tasks EXCEPT ![j].pc = "finished"]
    /\ UNCHANGED <<chunkVars, pipeVars, jobVars, detVars, embVars, storeVars, idVars>>

\* the event loop runs one task at a time from one await to the next, in any
\* order, and takes new events in between
ConcNext ==
    \/ StartIndexing
    \/ \E j \in DOMAIN tasks :
          TaskStart(j) \/ TaskSetup(j) \/ TaskFile(j) \/ TaskComplete(j)

ConcSpec == ConcInit /\ [][ConcNext]_vars

\* a job that has begun and has not ended
Active(j) == tasks[j].pc \in {"checking", "started"}

\* C23 as stated: no two jobs on the same collection are active at the same
\* time.
C23_AsStated ==
    \A j, k \in DOMAIN tasks :
        (j # k /\ tasks[j].collection_name = tasks[k].collection_name) =>
            ~(Active(j) /\ Active(k))

----------------------------------------------------------------------------
(* DetSpec: two calls of chunk_text with the same arguments.  The only thing
   outside its arguments that chunk_text reads is config.MAX_CHUNKS_PER_FILE,
   which config.py takes from the environment variable
   DOCA_MAX_CHUNKS_PER_FILE when the module is imported. *)

AltMaxChunks == 2

\* the values config.MAX_CHUNKS_PER_FILE has: the default, or the one configured
ConfiguredLimits == {MAX_CHUNKS_PER_FILE, AltMaxChunks}

\* a plausible slip: a limit that a call leaves lowered for the next call
ConfigReadDrifting(limits, call) == limits[call] - (call - 1)

\* max_chunks = config.MAX_CHUNKS_PER_FILE, read inside the function at each call
ConfigRead(limits, call) == limits[call]

\* chunk_text with the configuration value it reads made explicit
chunk_text_under(t0, cs0, ov0, max_chunks) ==
    LET t == CapText(t0)
        cs == CapChunkSize(cs0)
        ov == CapOverlap(cs, ov0)
    IN  IF EstimateRaises(cs, ov) THEN [raised |-> TRUE, chunks |-> <<>>]
        ELSE IF IsShort(t, cs) THEN [raised |-> FALSE, chunks |-> <<t>>]
        ELSE [raised |-> FALSE,
              chunks |-> RunLoop(t, cs, ov, max_chunks, LoopInit).chunks]

DetInit ==
    /\ PipeOff /\ JobOff /\ EmbOff /\ StoreOff /\ IdOff /\ ConcOff
    /\ cpc = "off"
    /\ arg_text \in ChunkTexts
    /\ arg_chunk_size \in ChunkSizes
    /\ arg_overlap \in Overlaps
    /\ text = <<>> /\ chunk_size = 0 /\ chunk_overlap = 0
    /\ loop = LoopInit
    /\ \E limits \in [1..2 -> ConfiguredLimits] :
           det = [pc |-> "first", limits |-> limits, results |-> <<>>]

\* the first call
FirstCall ==
    /\ det.pc = "first"
    /\ det' = [det EXCEPT !.pc = "second",
                          !.results = <<chunk_text_under(arg_text, arg_chunk_size,
                                            arg_overlap, ConfigRead(det.limits, 1))>>]
    /\ UNCHANGED <<chunkVars, pipeVars, jobVars, embVars, storeVars, idVars, concVars>>

\* the second call, with the same arguments
SecondCall ==
    /\ det.pc = "second"
    /\ det' = [det EXCEPT !.pc = "done",
                          !.results = Append(det.results,
                              chunk_text_under(arg_text, arg_chunk_size,
                                               arg_overlap, ConfigRead(det.limits, 2)))]
    /\ UNCHANGED <<chunkVars, pipeVars, jobVars, embVars, storeVars, idVars, concVars>>

DetNext == FirstCall \/ SecondCall

DetSpec == DetInit /\ [][DetNext]_vars

----------------------------------------------------------------------------
(* LegacySpec: chunk_text of src/doca/utils/chunking.py (the legacy chunker),
   one loop iteration per step.  It shares the chunker's variables. *)

MaxLegacyChunks == 6
LegacyBreakSize == 6

legacy_max_safe_length == 10000000

\* the list of break strings of the legacy chunker, in priority order
legacy_break_chars == << <<"\n", "\n">>, <<"\n">>, <<".", " ">>, <<"!", " ">>,
                         <<"?", " ">>, <<";", " ">> >>

\* the cap on the text length
LegacyCapText(t) ==
    IF Len(t) > legacy_max_safe_length THEN Slice(t, 0, legacy_max_safe_length) ELSE t

\* the for-loop over the break strings: the first one whose last occurrence in
\* [start, end) lies after start + chunk_size // 2 moves the end just past it
LegacyNaturalEnd(t, cs, start, end) ==
    LET found == {k \in 1..Len(legacy_break_chars) :
                     LET natural_break == RFind(t, legacy_break_chars[k], start, end)
                     IN  natural_break # -1 /\ natural_break > start + (cs \div 2)}
    IN  IF found = {} THEN Min(end, Len(t))
        ELSE LET k == CHOOSE k \in found : \A j \in found : k <= j
             IN  RFind(t, legacy_break_chars[k], start, end) + Len(legacy_break_chars[k])

\* the while condition of the legacy loop
LegacyGuard(t, l) == l.running /\ l.start < Len(t)

\* start = end - chunk_overlap, plus one when that equals end
LegacyNextStart(old_start, end, ov) ==
    IF end - ov = end THEN end + 1 ELSE end - ov

\* one iteration of the legacy loop body, entered with the while condition true
LegacyBody(t, cs, ov, l) ==
    LET hard == Min(l.start + cs, Len(t))
        end == IF hard < Len(t) THEN LegacyNaturalEnd(t, cs, l.start, hard) ELSE hard
    IN  IF l.start >= end
        THEN [l EXCEPT !.running = FALSE]
        ELSE [start |-> LegacyNextStart(l.start, end, ov),
              end |-> end,
              chunk_count |-> l.chunk_count,
              chunks |-> Append(l.chunks, Slice(t, l.start, end)),
              chunk |-> Slice(t, l.start, end),
              running |-> TRUE]

\* texts long enough for a break string to shorten a window of LegacyBreakSize
LegacyLongTexts == {Repeat(<<"a", "b", "c", "d", "\n", "e", "f">>, LegacyBreakSize + 4),
                    Repeat(<<"a", "b", "c", "d", ".", " ", "e">>, LegacyBreakSize + 4),
                    Repeat(<<"a">>, LegacyBreakSize + 4)}

LegacyTexts == Texts(MaxTextLen) \cup LegacyLongTexts

LegacySizes == (1..MaxChunkSize) \cup {LegacyBreakSize}

\* the arguments: a chunk_size of at least 1 and 0 <= chunk_overlap < chunk_size
LegacyInit ==
    /\ PipeOff /\ JobOff /\ LibOff
    /\ cpc = "entry"
    /\ arg_text \in LegacyTexts
    /\ arg_chunk_size \in LegacySizes
    /\ arg_overlap \in {ov \in 0..(LegacyBreakSize - 1) : ov < arg_chunk_size}
    /\ text = arg_text /\ chunk_size = arg_chunk_size /\ chunk_overlap = arg_overlap
    /\ loop = LoopInit

\* lines 21-30: the cap and the short-text branch
LegacyEntry ==
    /\ cpc = "entry"
    /\ text' = LegacyCapText(arg_text)
    /\ IF Len(text') <= chunk_size
       THEN cpc' = "done" /\ loop' = [loop EXCEPT !.chunks = <<text'>>, !.running = FALSE]
       ELSE cpc' = "loop" /\ loop' = loop
    /\ UNCHANGED <<arg_text, arg_chunk_size, arg_overlap, chunk_size, chunk_overlap,
                   pipeVars, jobVars, libVars>>

\* lines 33-74: one iteration (the model stops following a call that has
\* appended MaxLegacyChunks chunks)
LegacyIterate ==
    /\ cpc = "loop"
    /\ LegacyGuard(text, loop)
    /\ Len(loop.chunks) < MaxLegacyChunks
    /\ loop' = LegacyBody(text, chunk_size, chunk_overlap, loop)
    /\ UNCHANGED <<cpc, arg_text, arg_chunk_size, arg_overlap, text, chunk_size,
                   chunk_overlap, pipeVars, jobVars, libVars>>

\* line 76: the loop is left and the list returned
LegacyReturn ==
    /\ cpc = "loop"
    /\ ~LegacyGuard(text, loop)
    /\ cpc' = "done"
    /\ UNCHANGED <<arg_text, arg_chunk_size, arg_overlap, text, chunk_size,
                   chunk_overlap, loop, pipeVars, jobVars, libVars>>

LegacyNext == LegacyEntry \/ LegacyIterate \/ LegacyReturn

LegacySpec == LegacyInit /\ [][LegacyNext]_vars

\* C25 as stated: for a text longer than chunk_size and 0 < chunk_overlap <
\* chunk_size, every iteration of the legacy loop that emits a window moves
\* start strictly forward (so no start is repeated and the loop terminates).
C25_AsStated ==
    [][(LegacyIterate /\ Len(text) > chunk_size /\ 0 < chunk_overlap
            /\ chunk_overlap < chunk_size /\ loop'.running)
        => loop'.start > loop.start]_vars

----------------------------------------------------------------------------
(* Windows of chunk_text *)

\* the step took a window and appended its slice to the list
Emitted == Len(loop'.chunks) = Len(loop.chunks) + 1

\* C26 as stated: chunk_text leaves no gap between consecutive windows: after
\* every window [start, end) of the loop the next start is at or before end,
\* for every overlap >= 0 including 0.
C26_AsStated ==
    [][ChunkIterate => loop'.start <= loop'.end]_vars

\* C27 as stated: a chunk emitted right after an emitted chunk comes from a
\* window that ends beyond the end of the previous window; no emitted chunk
\* lies entirely inside the window of the chunk emitted before it.
C27_AsStated ==
    [][(ChunkIterate /\ Emitted /\ loop.chunks # <<>> /\ StripNonEmpty(loop.chunk))
        => loop'.end > loop.end]_vars

\* C28: when the chunk just emitted equals the chunk emitted immediately
\* before it, the overlap is not applied: the next window starts at or after
\* the end of the current window.
C28_DuplicateSkipsOverlap ==
    [][(ChunkIterate /\ Emitted /\ loop.chunks # <<>>
            /\ loop'.chunk = loop.chunks[Len(loop.chunks)])
        => loop'.start >= loop'.end]_vars

\* C28 witness: with an overlap of at least 1 that would have moved start
\* forward, the last two emitted chunks are equal and the next window starts
\* past the end of the current one.
C28_Witness ==
    /\ cpc = "loop"
    /\ chunk_overlap >= 1
    /\ Len(loop.chunks) >= 2
    /\ loop.chunks[Len(loop.chunks)] = loop.chunks[Len(loop.chunks) - 1]
    /\ loop.chunk = loop.chunks[Len(loop.chunks)]
    /\ loop.end - chunk_overlap > loop.end - Len(loop.chunk)
    /\ loop.start >= loop.end

\* the positions in [lo, hi) at which the whole of sub occurs in t
Occurrences(t, sub, lo, hi) ==
    {p \in lo..(hi - Len(sub)) : \A k \in 1..Len(sub) : p + k <= Len(t) /\ t[p + k] = sub[k]}

\* C29: for a window whose hard end start + chunk_size lies before the end of
\* the text, the end chosen is just after the last occurrence, within
\* [start + chunk_size // 3, hard end), of the first break string in priority
\* order that occurs there, and the hard end when none occurs there.
C29_NaturalBreak ==
    [][(ChunkIterate /\ loop.start + chunk_size < Len(text)) =>
          LET hard == loop.start + chunk_size
              lo == loop.start + (chunk_size \div 3)
              present == {k \in 1..Len(break_chars) :
                             Occurrences(text, break_chars[k], lo, hard) # {}}
          IN  IF present = {}
              THEN loop'.end = hard
              ELSE \E k \in present :
                     /\ \A j \in present : k <= j
                     /\ \E p \in Occurrences(text, break_chars[k], lo, hard) :
                          /\ \A q \in Occurrences(text, break_chars[k], lo, hard) : q <= p
                          /\ loop'.end = p + Len(break_chars[k])]_vars

\* C29 witness: a window was cut just after a line break although a
\* lower-priority break string occurs later in the search range, and earlier
\* line breaks occur in the range too.
C29_Witness ==
    /\ cpc = "loop"
    /\ Len(loop.chunks) = 1
    /\ loop.end < chunk_size
    /\ text[loop.end] = "\n"
    /\ Occurrences(text, <<",", " ">>, loop.end, chunk_size) # {}
    /\ Cardinality(Occurrences(text, <<"\n">>, chunk_size \div 3, chunk_size)) >= 2

----------------------------------------------------------------------------
(* Files index_file stops on *)

\* the file is one index_file stops on before the embeddings: no parser, the
\* size lookup fails, over the size limit, unreadable, empty content, parse
\* failure, chunking failure, or no chunk
StopsEarly(f, cs, ov) ==
    LET r == chunk_text(f.text, Min(cs, EFFECTIVE_CHUNK_SIZE), Min(ov, EFFECTIVE_CHUNK_OVERLAP))
    IN  \/ ~f.parser
        \/ f.getsize = "raise"
        \/ f.size > max_file_size
        \/ f.read \in {"latin1_fail", "oserror"}
        \/ f.content_len = 0
        \/ f.parse = "raise"
        \/ f.chunk = "MemoryError"
        \/ r.raised
        \/ r.chunks = <<>>

\* C30: a file index_file stops on before the Store stage (no parser, over
\* the size limit, unreadable, empty content, parse failure, chunking failure,
\* zero chunks) causes no embedding call and no upsert into the store, and
\* returns 0; a file over the size limit is never opened for reading.
C30_EarlyStopNoEffect ==
    ppc = "returned" =>
        /\ StopsEarly(pfile, idx_chunk_size, idx_chunk_overlap) =>
              /\ pres.fx.embed_calls = 0
              /\ pres.fx.store_calls = 0
              /\ pres.fx.accepted = 0
              /\ pres.kind = "return" /\ pres.value = 0
        /\ (pfile.parser /\ pfile.getsize = "ok" /\ pfile.size > max_file_size) =>
              ~pres.fx.opened

\* C30 witness: a call on a file over the size limit, which would otherwise
\* have been read, parsed, chunked and embedded, returned without opening it
\* and without an embedding call.
C30_Witness ==
    /\ ppc = "returned"
    /\ pfile.parser /\ pfile.getsize = "ok" /\ pfile.size > max_file_size
    /\ pfile.content_len > 0 /\ pfile.parse = "ok" /\ pfile.chunk = "ok"
    /\ pfile.text = <<"a", "b", "c">> /\ pfile.embed = "ok"
    /\ ~pres.fx.opened
    /\ pres.fx.embed_calls = 0

----------------------------------------------------------------------------
(* Blank parsed text *)

\* the call gets as far as chunk_text: the file has a parser, is within the
\* size limit, is read, has content, and is parsed
ReachesChunking(f) ==
    /\ f.parser /\ f.getsize = "ok" /\ f.size <= max_file_size
    /\ f.read \in {"utf8", "latin1"}
    /\ f.content_len > 0
    /\ f.parse = "ok"

\* C31 as stated: a non-empty file whose parsed text is empty or only
\* whitespace ends as skipped (return 0) with no embedding call and no store
\* call: index_file never hands an empty or whitespace-only passage to
\* generate_embeddings.
C31_AsStated ==
    (/\ ppc = "returned"
     /\ ReachesChunking(pfile)
     /\ ~StripNonEmpty(pfile.text)) =>
        /\ pres.fx.embed_calls = 0
        /\ pres.fx.store_calls = 0
        /\ pres.kind = "return" /\ pres.value = 0

----------------------------------------------------------------------------
(* Accounting of the files of a job *)

\* line 173 has run for the file the loop is at: index_file returned for it
\* and its count was added to indexed_count
AddedToIndexed ==
    /\ handled # <<>>
    /\ handled[Len(handled)].file_path = batch_files[i + 1].path
    /\ ~handled[Len(handled)].raised

\* C32 as stated: each processed file is accounted for in exactly one way:
\* error_files is never incremented for a file whose chunk count has been
\* added to indexed_chunks, even when a Notifier call raises.
C32_AsStated ==
    [][FileError => ~AddedToIndexed]_vars

----------------------------------------------------------------------------
(* The indexing_progress events *)

\* send_progress: round(current / total * 100, 2), in hundredths of a percent
\* (total = 0 raises ZeroDivisionError: the value is then -1)
Percentage(current, total) ==
    IF total = 0 THEN -1 ELSE (2 * current * 10000 + total) \div (2 * total)

\* C33: every indexing_progress event of a run carries total = total_files
\* >= 1 and a current with 1 <= current <= total that is the 1-based position
\* of its file in processing order, so the percentage is computed without a
\* division by zero and is at most 100.
C33_ProgressInRange ==
    \A k \in DOMAIN trace :
        trace[k].ev = "indexing_progress" =>
            /\ trace[k].total = total_files
            /\ trace[k].total >= 1
            /\ 1 <= trace[k].current /\ trace[k].current <= trace[k].total
            /\ filtered_files[trace[k].current].path = trace[k].file_path
            /\ Percentage(trace[k].current, trace[k].total) > 0
            /\ Percentage(trace[k].current, trace[k].total) <= 100 * 100

\* C33 witness: a run over at least two files has sent the progress of its
\* first file, below 100 percent, and of its last file, at 100 percent.
C33_Witness ==
    /\ total_files >= 2
    /\ \E k \in DOMAIN trace :
          /\ trace[k].ev = "indexing_progress"
          /\ trace[k].current = 1
          /\ Percentage(trace[k].current, trace[k].total) < 100 * 100
    /\ \E k \in DOMAIN trace :
          /\ trace[k].ev = "indexing_progress"
          /\ trace[k].current = total_files
          /\ Percentage(trace[k].current, trace[k].total) = 100 * 100

----------------------------------------------------------------------------
(* Length of the chunks *)

\* C34: in a multi-chunk result of chunk_text (the text is longer than the
\* effective chunk_size, the chunk_size argument capped at 1000) every
\* emitted chunk has a length between 1 and the effective chunk_size, whether
\* its window ended at a natural break or at the hard end.
C34_ChunkLengthBounded ==
    (cpc \in {"loop", "done"} /\ ~IsShort(text, chunk_size)) =>
        /\ chunk_size = Min(arg_chunk_size, ChunkSizeCeiling)
        /\ \A k \in DOMAIN loop.chunks :
              /\ Len(loop.chunks[k]) >= 1
              /\ Len(loop.chunks[k]) <= chunk_size

\* C34 witness: a call with a chunk_size argument above the ceiling returned
\* several chunks, the first cut at a natural break before the hard end.
C34_Witness ==
    /\ cpc = "done"
    /\ arg_chunk_size > ChunkSizeCeiling
    /\ Len(loop.chunks) >= 2
    /\ Len(loop.chunks[1]) < chunk_size
    /\ Len(loop.chunks[1]) > chunk_size \div 3
    /\ loop.chunks[1][Len(loop.chunks[1])] = "\n"

----------------------------------------------------------------------------
(* Releases and delays of generate_embeddings *)

\* the positions of the encode calls in emb_ops
EncodeCalls == {k \in DOMAIN emb_ops : emb_ops[k] \in {"encode", "encode_failed"}}

\* C35: in generate_embeddings a resource release runs right before every
\* batch's encode call and right after it, whether the call succeeded or
\* failed; a delay lies between the encode calls of any two batches; and a
\* release is the last thing done before the call returns or raises.
C35_ReleaseAroundBatches ==
    /\ \A k \in EncodeCalls :
          /\ k > 1 /\ emb_ops[k - 1] = OpRelease
          /\ k < Len(emb_ops) /\ emb_ops[k + 1] = OpRelease
    /\ \A k \in EncodeCalls : \A m \in EncodeCalls :
          k < m => \E d \in (k + 1)..(m - 1) :
                      emb_ops[d] = OpSleep /\ emb_ops[d - 1] = OpRelease
    /\ epc \in {"returned", "raised"} =>
          /\ emb_ops # <<>> /\ emb_ops[Len(emb_ops)] = OpRelease
          /\ epc = "returned" =>
                /\ Cardinality(EncodeCalls) = Cardinality(BatchStarts(Len(emb_chunks), batch_size))
                /\ Len(emb_ops) = 4 * Cardinality(EncodeCalls) + 1

\* C35 witness: a call of several batches returned, one of its encode calls
\* having failed and a later one succeeded.
C35_Witness ==
    /\ epc = "returned"
    /\ \E k \in EncodeCalls : \E m \in EncodeCalls :
          k < m /\ emb_ops[k] = "encode_failed" /\ emb_ops[m] = "encode"

----------------------------------------------------------------------------
(* Releases and delays of index_directory *)

\* the trace ends with the steps ops
EndsWith(ops) ==
    /\ Len(trace) >= Len(ops)
    /\ SubSeq(trace, Len(trace) - Len(ops) + 1, Len(trace)) = ops

\* C36: in index_directory a file starts either first in its batch, right
\* after the release that precedes the batch, or right after the garbage
\* collection and the delay that followed the file before it, whether that
\* file succeeded or raised; and the head of the batch loop is reached again
\* only right after the last file's collection and delay and the pause that
\* follows the batch.
C36_ReleaseAndPace ==
    [][/\ FileBegin =>
            IF i = 0 THEN EndsWith(<<OpCleanup>>)
            ELSE EndsWith(<<OpCollect, OpSleepFile>>)
       /\ (BatchBegin /\ batch_idx > 0) =>
            /\ EndsWith(<<OpCollect, OpSleepFile, OpSleepBatch>>)
            /\ batch_idx < Len(filtered_files) /\ jpc' = "file_begin"
                  => trace' = Append(trace, OpCleanup)]_vars

\* C36 witness: the first file of a second batch has started, after a batch
\* in which a file raised and a later file was indexed.
C36_Witness ==
    /\ jpc = "file_index"
    /\ batch_idx = BATCH_SIZE /\ i = 0
    /\ EndsWith(<<OpCollect, OpSleepFile, OpSleepBatch, OpCleanup, EvStatus("processing")>>)
    /\ \E k \in DOMAIN trace : \E m \in DOMAIN trace :
          /\ k < m
          /\ trace[k].ev = "indexing_error"
          /\ trace[m].ev = "indexing_progress"

----------------------------------------------------------------------------
(* The counters of a job *)

\* C37: within one run of index_directory no step lowers skipped_count,
\* indexed_count or error_count, and no step changes total_files once the
\* indexing_started event has been emitted.
C37_CountersMonotone ==
    [][/\ skipped_count' >= skipped_count
       /\ indexed_count' >= indexed_count
       /\ error_count' >= error_count
       /\ EventsOf("indexing_started") # {} => total_files' = total_files]_vars

\* C37 witness: a run that skipped a file and counted an error for another
\* has completed, its total_files as announced at the start.
C37_Witness ==
    /\ jpc = "returned"
    /\ skipped_count >= 1 /\ error_count >= 1
    /\ \E k \in EventsOf("indexing_started") :
          trace[k].total_files = total_files /\ total_files >= 2
    /\ EventsOf("indexing_completed") # {}

====
